---- MODULE Spec2Model ----
\* Verification model of cattledb's storage core:
\*   cattledb/storage/models.py   TimeSeries container and cell codec
\*   cattledb/storage/stores.py   TimeSeriesStore, EventStore and ActivityStore
\*                                 on a wide-column backend
\*   cattledb/storage/connection.py  Connection and its table handles
\*   cattledb/directclient/__init__.py  CDBClient
EXTENDS Integers, Sequences, FiniteSets, TLC

VARIABLES
    read_only,  \* Connection.read_only
    series,     \* the TimeSeries under test: its three parallel arrays
    pre,        \* the series as it was before the last call
    call,       \* the last call: operation name and arguments
    ret,        \* the value the last call returned (NoRet when it raised)
    exc,        \* the exception the last call raised ("" when it returned)
    cells,      \* backend table "timeseries": set of stored cells
    cellsPre,   \* the table as it was before the last store call
    out,        \* the list of series the last store read returned
    nIns,       \* number of insert_timeseries calls so far
    stored,     \* history: the points accepted by insert_timeseries so far
    events,     \* backend table "events": set of stored cells
    activity,   \* backend table "activity": set of counter cells
    instances,  \* Connection.instances: the pool of backend instances
    threads,    \* the threads calling into the Connection: position and locals
    client      \* the CDBClient built by create_client

vars == <<read_only, series, pre, call, ret, exc, cells, cellsPre, out, nIns, stored,
          events, activity, instances, threads, client>>

\* the tables, pool, threads and client beside the timeseries store
others == <<events, activity, instances, threads, client>>

-----------------------------------------------------------------------------
\* Bounds of the model

MaxLen == 3          \* longest series built in the container machine
MaxSeriesTs == 2     \* container machine: timestamps TsOf(0..MaxSeriesTs)
MaxTsIdx == 3        \* store machine: timestamps TsOf(0..MaxTsIdx)
MaxInserts == 2      \* insert_timeseries calls per behaviour
MaxPoints == 2       \* points per inserted series
MaxCount == 2        \* largest count passed to get_last_values
MaxDaysArg == 2      \* largest max_days passed to get_last_values
MaxEvents == 2       \* mutator machine: small event batches of 0..MaxEvents
MaxIncr == 2         \* mutator machine: largest counter value reached
PoolSize == 2        \* Connection.pool_size
MaxParents == 3      \* activity machine: longest parent list offered
MaxCalls == 3        \* activity machine: calls of incr_activity per behaviour
MaxThreads == 2      \* threads calling incr_activity concurrently
MaxCallers == 3      \* threads calling get_instance concurrently
MaxKeyDays == 14     \* key machine: timestamps 29 days apart, 0..MaxKeyDays
MaxRound == 3        \* round-trip machine: points of the series encoded

-----------------------------------------------------------------------------
\* Program constants

DaySecs == 86400             \* 24 * 60 * 60
HalfInt32 == 1073741824      \* 2^30: array.array("i") and struct "i" hold
                             \* -2^31 .. 2^31 - 1 seconds; offsets are kept
                             \* in units of 2 s, so they fit iff they are
                             \* in -2^30 .. 2^30 - 1
F32Mant == 16777216          \* 2^24: struct "f" keeps 24 significant bits
NoRet == 0 - 1                \* ret of a call that raised
Hash == 35                   \* "#"
Digit0 == 48                 \* "0"

\* Inputs: timestamps 18 hours apart (two on the first day, then one per
\* day), starting at midnight of 1970-01-31 so that the days cross a month
\* boundary
TsBase == 30 * DaySecs
TsStep == (3 * DaySecs) \div 4
TsOf(i) == TsBase + i * TsStep
\* Entity keys "k1" and "k2", as the byte strings row keys are built from
K1 == <<107, 49>>
K2 == <<107, 50>>

SeriesTs == { TsOf(i) : i \in 0..MaxSeriesTs }
StoreTs == { TsOf(i) : i \in 0..MaxTsIdx }

-----------------------------------------------------------------------------
\* Generic helpers

Min(a, b) == IF a < b THEN a ELSE b
Max(a, b) == IF a > b THEN a ELSE b

RECURSIVE Pow2(_)
Pow2(n) == IF n = 0 THEN 1 ELSE 2 * Pow2(n - 1)

\* Python slice a[lo:hi] with 0-based non-negative bounds, clamped to len(a)
Slice(a, lo, hi) ==
    LET l == Min(lo, Len(a))
        h == Min(hi, Len(a))
    IN  IF l >= h THEN <<>> ELSE SubSeq(a, l + 1, h)

\* list.insert / array.insert / deque.insert at 0-based index i (i > len appends)
InsertAt(a, i, x) ==
    LET k == Min(i, Len(a))
    IN  SubSeq(a, 1, k) \o <<x>> \o SubSeq(a, k + 1, Len(a))

\* a[i] = x at 0-based index i
SetAt(a, i, x) == [a EXCEPT ![i + 1] = x]

\* bisect.bisect_left(a, x): binary search, lo = 0, hi = len(a)
RECURSIVE BisectLeftFrom(_, _, _, _)
BisectLeftFrom(a, x, lo, hi) ==
    IF lo >= hi THEN lo
    ELSE LET mid == (lo + hi) \div 2
         IN  IF a[mid + 1] < x
             THEN BisectLeftFrom(a, x, mid + 1, hi)
             ELSE BisectLeftFrom(a, x, lo, mid)

bisect_left(a, x) == BisectLeftFrom(a, x, 0, Len(a))

\* bisect.bisect_right(a, x)
RECURSIVE BisectRightFrom(_, _, _, _)
BisectRightFrom(a, x, lo, hi) ==
    IF lo >= hi THEN lo
    ELSE LET mid == (lo + hi) \div 2
         IN  IF x < a[mid + 1]
             THEN BisectRightFrom(a, x, lo, mid)
             ELSE BisectRightFrom(a, x, mid + 1, hi)

bisect_right(a, x) == BisectRightFrom(a, x, 0, Len(a))

-----------------------------------------------------------------------------
\* Cell codec: struct.pack("B", tag) + struct.pack("i", offset) + struct.pack("f", value)

\* struct.pack("i", n) for n = 2 * x seconds: 4 bytes, little endian, two's
\* complement (\div rounds down and % is non-negative, as for Python ints)
PackI(x) ==
    << (2 * (x % 128)) % 256, (x \div 128) % 256,
       (x \div 32768) % 256, (x \div 8388608) % 256 >>

\* struct.unpack("I", b): the four bytes read as an unsigned number
UnpackI_Unsigned(b) ==
    (b[1] \div 2) + 128 * b[2] + 32768 * b[3] + 8388608 * (b[4] % 128)

\* struct.unpack("i", b), in units of 2 s
UnpackI(b) ==
    LET top == IF b[4] >= 128 THEN b[4] - 256 ELSE b[4]
    IN  (b[1] \div 2) + 128 * b[2] + 32768 * b[3] + 8388608 * top

\* the unit in the last place of a single-precision float near v >= 0
RECURSIVE Ulp(_, _)
Ulp(v, u) == IF v < F32Mant * u THEN u ELSE Ulp(v, 2 * u)

\* struct.pack("f", v) followed by struct.unpack("f", ...): the value is
\* rounded to 24 significant bits, ties to even (v a non-negative integer)
RoundF32(v) ==
    LET u == Ulp(v, 1)
        q == v \div u
        r == v % u
    IN  IF 2 * r < u THEN q * u
        ELSE IF 2 * r > u THEN (q + 1) * u
        ELSE IF q % 2 = 0 THEN q * u ELSE (q + 1) * u

FLOATSERIES == 1
DICTSERIES == 2

\* TimeSeries._storage_item_at for a Float series: (timestamp, bytes)
EncodeCell(offset, value) ==
    [tag |-> FLOATSERIES, off |-> PackI(offset), val |-> RoundF32(value)]

-----------------------------------------------------------------------------
\* TimeSeries container

\* TimeSeries(key, metric): a new, empty Float series
NewSeries(key, metric) ==
    [key |-> key, metric |-> metric,
     timestamps |-> <<>>, offsets |-> <<>>, values |-> <<>>]

\* len(series) is len(self._timestamps)
SLen(s) == Len(s.timestamps)

\* array.array("I") accepts 0 .. 2^32 - 1; every integer of the model is
\* below 2^32, so only a negative one is rejected
FitsU32(x) == 0 <= x
\* array.array("i") accepts -2^31 .. 2^31 - 1 seconds
FitsI32(x) == 0 - HalfInt32 <= x /\ x <= HalfInt32 - 1

\* the length assertion of TimeSeries.check_series: the parallel arrays agree
EqualLen(s) ==
    /\ Len(s.offsets) = Len(s.timestamps)
    /\ Len(s.values) = Len(s.timestamps)

\* TimeSeries.check_sorted: all(b >= a for a, b in zip(ts, ts[1:]))
check_sorted(s) ==
    \A i \in 1..Len(s.timestamps) - 1 : s.timestamps[i + 1] >= s.timestamps[i]

\* TimeSeries.__bool__: check_series() passes and the series is not empty
\* (a failed assertion and an empty series both fail "assert bool(ts)")
SeriesBool(s) == EqualLen(s) /\ check_sorted(s) /\ SLen(s) > 0

\* outcome of a call on a series: the series afterwards and what the call
\* returned or raised
Returned(s, r) == [s |-> s, ret |-> r, exc |-> ""]
Raised(s, e) == [s |-> s, ret |-> NoRet, exc |-> e]

\* insert_point with the duplicate test lost for the first position: a
\* timestamp that bisects to index 0 of a non-empty series is spliced in
insert_point_PrependFirst(s, timestamp, offset, value, overwrite) ==
    LET idx == bisect_left(s.timestamps, timestamp)
    IN  IF idx = Len(s.timestamps)
        THEN \* Append
             IF ~FitsU32(timestamp) THEN Raised(s, "OverflowError")
             ELSE IF ~FitsI32(offset)
                  THEN Raised([s EXCEPT !.timestamps = Append(@, timestamp),
                                        !.values = Append(@, value)],
                              "OverflowError")
                  ELSE Returned([s EXCEPT !.timestamps = Append(@, timestamp),
                                          !.values = Append(@, value),
                                          !.offsets = Append(@, offset)], 1)
        ELSE IF idx > 0 /\ s.timestamps[idx + 1] = timestamp
        THEN \* Already Existing
             IF overwrite
             THEN IF ~FitsI32(offset) THEN Raised(s, "OverflowError")
                  ELSE IF idx >= Len(s.offsets) THEN Raised(s, "IndexError")
                  ELSE Returned([s EXCEPT !.offsets = SetAt(@, idx, offset),
                                          !.values = SetAt(@, idx, value)], 1)
             ELSE Returned(s, 0)
        ELSE \* Insert
             IF ~FitsU32(timestamp) THEN Raised(s, "OverflowError")
             ELSE IF ~FitsI32(offset)
                  THEN Raised([s EXCEPT !.timestamps = InsertAt(@, idx, timestamp),
                                        !.values = InsertAt(@, idx, value)],
                              "OverflowError")
                  ELSE Returned([s EXCEPT !.timestamps = InsertAt(@, idx, timestamp),
                                          !.values = InsertAt(@, idx, value),
                                          !.offsets = InsertAt(@, idx, offset)], 1)

\* TimeSeries.insert_point(TimestampWithOffset(timestamp, offset), value, overwrite)
\* array.append / array.insert raise OverflowError on an item out of range,
\* after the statements before them have already run
insert_point(s, timestamp, offset, value, overwrite) ==
    LET idx == bisect_left(s.timestamps, timestamp)
    IN  IF idx = Len(s.timestamps)
        THEN \* Append
             IF ~FitsU32(timestamp) THEN Raised(s, "OverflowError")
             ELSE IF ~FitsI32(offset)
                  THEN Raised([s EXCEPT !.timestamps = Append(@, timestamp),
                                        !.values = Append(@, value)],
                              "OverflowError")
                  ELSE Returned([s EXCEPT !.timestamps = Append(@, timestamp),
                                          !.values = Append(@, value),
                                          !.offsets = Append(@, offset)], 1)
        ELSE IF s.timestamps[idx + 1] = timestamp
        THEN \* Already Existing
             IF overwrite
             THEN IF ~FitsI32(offset) THEN Raised(s, "OverflowError")
                  ELSE IF idx >= Len(s.offsets) THEN Raised(s, "IndexError")
                  ELSE Returned([s EXCEPT !.offsets = SetAt(@, idx, offset),
                                          !.values = SetAt(@, idx, value)], 1)
             ELSE Returned(s, 0)
        ELSE \* Insert
             IF ~FitsU32(timestamp) THEN Raised(s, "OverflowError")
             ELSE IF ~FitsI32(offset)
                  THEN Raised([s EXCEPT !.timestamps = InsertAt(@, idx, timestamp),
                                        !.values = InsertAt(@, idx, value)],
                              "OverflowError")
                  ELSE Returned([s EXCEPT !.timestamps = InsertAt(@, idx, timestamp),
                                          !.values = InsertAt(@, idx, value),
                                          !.offsets = InsertAt(@, idx, offset)], 1)

\* TimeSeries.insert_storage_item(timestamp, by, overwrite) on a Float series
insert_storage_item(s, timestamp, by, overwrite) ==
    LET f == by.tag
        offset == UnpackI(by.off)
        value == by.val
        idx == bisect_left(s.timestamps, timestamp)
    IN  IF f # FLOATSERIES THEN Raised(s, "RuntimeError")
        ELSE IF idx = 0
        THEN \* Prepend
             IF ~FitsU32(timestamp) THEN Raised(s, "OverflowError")
             ELSE Returned([s EXCEPT !.timestamps = InsertAt(@, 0, timestamp),
                                     !.values = <<value>> \o @,
                                     !.offsets = InsertAt(@, 0, offset)], 1)
        ELSE IF idx = Len(s.timestamps)
        THEN \* Append
             IF ~FitsU32(timestamp) THEN Raised(s, "OverflowError")
             ELSE Returned([s EXCEPT !.timestamps = Append(@, timestamp),
                                     !.values = Append(@, value),
                                     !.offsets = Append(@, offset)], 1)
        ELSE IF s.timestamps[idx + 1] = timestamp
        THEN \* Already Existing
             IF overwrite
             THEN IF idx >= Len(s.offsets) THEN Raised(s, "IndexError")
                  ELSE Returned([s EXCEPT !.offsets = SetAt(@, idx, offset),
                                          !.values = SetAt(@, idx, value)], 1)
             ELSE Returned(s, 0)
        ELSE \* Insert
             IF ~FitsU32(timestamp) THEN Raised(s, "OverflowError")
             ELSE Returned([s EXCEPT !.timestamps = InsertAt(@, idx, timestamp),
                                     !.values = InsertAt(@, idx, value),
                                     !.offsets = InsertAt(@, idx, offset)], 1)

\* trim with an exclusive upper bound (bisect_left for both ends)
trim_ExclusiveMax(s, ts_min, ts_max) ==
    LET low == bisect_left(s.timestamps, ts_min)
        high == bisect_left(s.timestamps, ts_max)
    IN  [s EXCEPT !.timestamps = Slice(@, low, high),
                  !.values = Slice(@, low, high),
                  !.offsets = Slice(@, low, high)]

\* TimeSeries.trim(ts_min, ts_max)
trim(s, ts_min, ts_max) ==
    LET low == bisect_left(s.timestamps, ts_min)
        high == bisect_right(s.timestamps, ts_max)
    IN  [s EXCEPT !.timestamps = Slice(@, low, high),
                  !.values = Slice(@, low, high),
                  !.offsets = Slice(@, low, high)]

\* Python slice a[-n:] for n >= 0 (a[-0:] is a[0:], the whole sequence)
SliceLast(a, n) ==
    IF n = 0 THEN a ELSE Slice(a, Max(Len(a) - n, 0), Len(a))

\* TimeSeries.trim_count_newest(count)
trim_count_newest(s, count) ==
    IF SLen(s) <= count THEN s
    ELSE [s EXCEPT !.timestamps = SliceLast(@, count),
                   !.values = SliceLast(@, count),
                   !.offsets = SliceLast(@, count)]

\* Python slice a[:n] for n >= 0
SliceFirst(a, n) == Slice(a, 0, n)

\* TimeSeries.trim_count_oldest(count)
trim_count_oldest(s, count) ==
    IF SLen(s) <= count THEN s
    ELSE [s EXCEPT !.timestamps = SliceFirst(@, count),
                   !.values = SliceFirst(@, count),
                   !.offsets = SliceFirst(@, count)]

-----------------------------------------------------------------------------
\* Key/time helpers

\* time.gmtime(ts): the UTC calendar date and hour of a timestamp
gmtime(ts) ==
    LET z == ts \div DaySecs + 719468
        era == z \div 146097
        doe == z - era * 146097
        yoe == (doe - doe \div 1460 + doe \div 36524 - doe \div 146096) \div 365
        doy == doe - (365 * yoe + yoe \div 4 - yoe \div 100)
        mp == (5 * doy + 2) \div 153
        d == doy - (153 * mp + 2) \div 5 + 1
        m == IF mp < 10 THEN mp + 3 ELSE mp - 9
        y == yoe + era * 400 + (IF m <= 2 THEN 1 ELSE 0)
    IN  [tm_year |-> y, tm_mon |-> m, tm_mday |-> d,
         tm_hour |-> (ts % DaySecs) \div 3600]

RECURSIVE Pow10(_)
Pow10(n) == IF n = 0 THEN 1 ELSE 10 * Pow10(n - 1)

\* "{:0wd}".format(n) for 0 <= n < 10^w, as character codes
FormatD(n, w) == [i \in 1..w |-> Digit0 + ((n \div Pow10(w - i)) % 10)]

\* "{}".format(n) for n >= 0: the decimal digits of n, as character codes
RECURSIVE FormatInt(_)
FormatInt(n) ==
    IF n < 10 THEN <<Digit0 + n>>
    ELSE FormatInt(n \div 10) \o <<Digit0 + (n % 10)>>

\* int(s) for a string of decimal digits
RECURSIVE ParseInt(_)
ParseInt(s) ==
    IF Len(s) = 0 THEN 0
    ELSE 10 * ParseInt(SubSeq(s, 1, Len(s) - 1)) + (s[Len(s)] - Digit0)

\* the key with the day of the month left as it is
reverse_day_key_of_PlainDay(time_tuple) ==
    LET y == 5000 - time_tuple.tm_year
        m == 50 - time_tuple.tm_mon
        d == time_tuple.tm_mday
    IN  FormatD(y, 4) \o FormatD(m, 2) \o FormatD(d, 2)

\* the key TimeSeriesStore.reverse_day_key builds from a time tuple
reverse_day_key_of(time_tuple) ==
    LET y == 5000 - time_tuple.tm_year
        m == 50 - time_tuple.tm_mon
        d == 50 - time_tuple.tm_mday
    IN  FormatD(y, 4) \o FormatD(m, 2) \o FormatD(d, 2)

\* TimeSeriesStore.reverse_day_key(ts)
reverse_day_key(ts) == reverse_day_key_of(gmtime(ts))

\* TimeSeriesStore.get_row_key(base_key, day_ts): "{}#{}".format(...)
get_row_key(base_key, day_ts) == base_key \o <<Hash>> \o reverse_day_key(day_ts)

\* helper.ts_daily_left(ts): midnight of the UTC day of ts
ts_daily_left(ts) == ts - (ts % DaySecs)

\* helper.ts_daily_right(ts): the next midnight minus one
ts_daily_right(ts) == ts_daily_left(ts) + DaySecs - 1

\* helper.daily_timestamps(from_ts, to_ts): one timestamp (the midnight) per
\* UTC day covered by [from_ts, to_ts], both ends included
daily_timestamps(from_ts, to_ts) ==
    LET first == ts_daily_left(from_ts)
        n == (ts_daily_left(to_ts) - first) \div DaySecs + 1
    IN  [k \in 1..n |-> first + (k - 1) * DaySecs]

\* byte-string order: a < b
RECURSIVE LexLess(_, _)
LexLess(a, b) ==
    IF Len(b) = 0 THEN FALSE
    ELSE IF Len(a) = 0 THEN TRUE
    ELSE IF a[1] # b[1] THEN a[1] < b[1]
    ELSE LexLess(Tail(a), Tail(b))

\* bytes.startswith(prefix)
StartsWith(a, prefix) ==
    Len(a) >= Len(prefix) /\ SubSeq(a, 1, Len(prefix)) = prefix

\* a finite set of row keys as a sequence in ascending key order
RECURSIVE SortRows(_)
SortRows(S) ==
    IF S = {} THEN <<>>
    ELSE LET m == CHOOSE x \in S : \A y \in S \ {x} : LexLess(x, y)
         IN  <<m>> \o SortRows(S \ {m})

-----------------------------------------------------------------------------
\* Metric registry (timeseries_settings): name, column family id, delete flag

METRIC_NAME_LOOKUP ==
    [ph   |-> [name |-> "ph",   id |-> <<112>>, delete_possible |-> TRUE],
     act  |-> [name |-> "act",  id |-> <<97>>,  delete_possible |-> TRUE],
     temp |-> [name |-> "temp", id |-> <<116>>, delete_possible |-> FALSE]]

METRIC_NAMES == DOMAIN METRIC_NAME_LOOKUP

\* TimeSeriesStore.get_metric_object(metric_name), for a known name
get_metric_object(metric_name) == METRIC_NAME_LOOKUP[metric_name]

\* get_metric_object raises KeyError for some metric of the list
UnknownMetric(metrics) == \E i \in 1..Len(metrics) : metrics[i] \notin METRIC_NAMES

-----------------------------------------------------------------------------
\* Backend table: a set of cells [row, fam, q, val], one per (row, fam, q);
\* the column "fam:q" of a point is its metric id and its timestamp in decimal
\* (column family with MaxVersionsGCRule(1): the latest write is kept)

SameColumn(c, d) == c.fam = d.fam /\ c.q = d.q

\* Batch.put that replaces the whole row instead of the written columns
put_ReplaceRow(tbl, row_key, data) ==
    { c \in tbl : c.row # row_key }
    \cup { [row |-> row_key, fam |-> d.fam, q |-> d.q, val |-> d.val] : d \in data }

\* Batch.put(row_key, data): data is the set of [fam, q, val] of the mutation
put(tbl, row_key, data) ==
    { c \in tbl : ~(c.row = row_key /\ \E d \in data : SameColumn(c, d)) }
    \cup { [row |-> row_key, fam |-> d.fam, q |-> d.q, val |-> d.val] : d \in data }

\* Batch.delete(row_key, columns = ["fam:", ...]): drops the families' cells
delete(tbl, row_key, columns) ==
    { c \in tbl : ~(c.row = row_key /\ c.fam \in columns) }

\* data_dict.items(): the cells of one row in the order the dictionary
\* yields them, which is some fixed order
RECURSIVE Items(_)
Items(S) ==
    IF S = {} THEN <<>>
    ELSE LET m == CHOOSE x \in S : TRUE
         IN  <<m>> \o Items(S \ {m})

\* the (row_key, data_dict) of a row restricted to the requested families
RowData(tbl, row_key, columns) ==
    [row_key |-> row_key,
     data |-> Items({ c \in tbl : c.row = row_key /\ c.fam \in columns })]

\* the keys of the rows that hold a cell of the requested families
RowsWith(tbl, columns) == { c.row : c \in { d \in tbl : d.fam \in columns } }

\* Table.rows(row_keys, columns): the requested rows that exist, in key order
table_rows(tbl, row_keys, columns) ==
    LET found == { row_keys[i] : i \in 1..Len(row_keys) } \cap RowsWith(tbl, columns)
        sorted == SortRows(found)
    IN  [i \in 1..Len(sorted) |-> RowData(tbl, sorted[i], columns)]

\* Table.scan(row_start, limit, columns): the first `limit` rows with a
\* requested cell whose key is >= row_start, in key order
table_scan(tbl, row_start, limit, columns) ==
    LET found == { r \in RowsWith(tbl, columns) : ~LexLess(r, row_start) }
        sorted == SortRows(found)
    IN  [i \in 1..Min(limit, Len(sorted)) |-> RowData(tbl, sorted[i], columns)]

-----------------------------------------------------------------------------
\* TimeSeriesStore

MAX_GET_SIZE == 400 * DaySecs

\* TimeSeries._storage_item_at(i), 0-based i, of a Float series
storage_item_at(s, i) ==
    [ts |-> s.timestamps[i + 1], by |-> EncodeCell(s.offsets[i + 1], s.values[i + 1])]

\* the inner while loop stopping after the first point of a bucket
BucketRun_Single(a, i, lower_bound, upper_bound, j) == 1

\* the inner while loop of daily_storage_buckets: the number j of points
\* from index i on that lie in [lower_bound, upper_bound]
RECURSIVE BucketRun(_, _, _, _, _)
BucketRun(a, i, lower_bound, upper_bound, j) ==
    IF i + j < Len(a) /\ lower_bound <= a[i + j + 1] /\ a[i + j + 1] <= upper_bound
    THEN BucketRun(a, i, lower_bound, upper_bound, j + 1)
    ELSE j

\* TimeSeries.daily_storage_buckets(), from index i on: the sequence of
\* (lower_bound, [storage items]) it yields
RECURSIVE BucketsFrom(_, _)
BucketsFrom(s, i) ==
    IF i >= Len(s.timestamps) THEN <<>>
    ELSE LET lower_bound == ts_daily_left(s.timestamps[i + 1])
             upper_bound == ts_daily_right(s.timestamps[i + 1])
             j == BucketRun(s.timestamps, i, lower_bound, upper_bound, 0)
         IN  << [day |-> lower_bound,
                 bucket |-> [x \in 1..j |-> storage_item_at(s, i + x - 1)]] >>
             \o BucketsFrom(s, i + j)

daily_storage_buckets(s) == BucketsFrom(s, 0)

\* outcome of a store call: the table afterwards, the returned number or
\* list of series, and the exception raised
StoreResult(tbl, r, o, e) == [cells |-> tbl, ret |-> r, out |-> o, exc |-> e]

\* the body of "with Batch(dt) as b": one put per daily bucket, from bucket n on
RECURSIVE PutBuckets(_, _, _, _, _)
PutBuckets(tbl, key, metric_object, buckets, n) ==
    IF n > Len(buckets) THEN tbl
    ELSE LET row_key == get_row_key(key, buckets[n].day)
             bucket == buckets[n].bucket
             data == { [fam |-> metric_object.id, q |-> FormatInt(bucket[x].ts),
                        val |-> bucket[x].by]
                       : x \in 1..Len(bucket) }
         IN  PutBuckets(put(tbl, row_key, data), key, metric_object, buckets, n + 1)

\* TimeSeriesStore.insert_timeseries(ts)
insert_timeseries(tbl, ro, ts) ==
    IF ro THEN StoreResult(tbl, NoRet, <<>>, "RuntimeError: readonly")
    ELSE IF ~SeriesBool(ts) THEN StoreResult(tbl, NoRet, <<>>, "AssertionError")
    ELSE IF ts.metric \notin METRIC_NAMES THEN StoreResult(tbl, NoRet, <<>>, "KeyError")
    ELSE LET metric_object == get_metric_object(ts.metric)
         IN  StoreResult(PutBuckets(tbl, ts.key, metric_object, daily_storage_buckets(ts), 1),
                         SLen(ts), <<>>, "")

\* the loop "for k, value in data_dict.items()": every cell of a requested
\* family goes through insert_storage_item into the series of its family
RECURSIVE MergeCells(_, _, _)
MergeCells(timeseries, data, n) ==
    IF n > Len(data) THEN [timeseries |-> timeseries, exc |-> ""]
    ELSE LET c == data[n]
         IN  IF c.fam \in DOMAIN timeseries
             THEN LET r == insert_storage_item(timeseries[c.fam], ParseInt(c.q), c.val, FALSE)
                      merged == [timeseries EXCEPT ![c.fam] = r.s]
                  IN  IF r.exc # "" THEN [timeseries |-> merged, exc |-> r.exc]
                      ELSE MergeCells(merged, data, n + 1)
             ELSE MergeCells(timeseries, data, n + 1)

\* the loop "for row_key, data_dict in res" of get_timeseries, from row n on
RECURSIVE MergeRows(_, _, _)
MergeRows(timeseries, res, n) ==
    IF n > Len(res) THEN [timeseries |-> timeseries, exc |-> ""]
    ELSE LET m == MergeCells(timeseries, res[n].data, 1)
         IN  IF m.exc # "" THEN m ELSE MergeRows(m.timeseries, res, n + 1)

\* the metric objects of a request and {m.id: TimeSeries(key, m.name)}
MetricObjects(metrics) == [i \in 1..Len(metrics) |-> get_metric_object(metrics[i])]

Columns(metric_objects) == { metric_objects[i].id : i \in 1..Len(metric_objects) }

FreshSeries(key, metric_objects) ==
    [f \in Columns(metric_objects) |->
        LET last == CHOOSE i \in 1..Len(metric_objects) :
                        /\ metric_objects[i].id = f
                        /\ \A j \in i + 1..Len(metric_objects) : metric_objects[j].id # f
        IN  NewSeries(key, metric_objects[last].name)]

RowKeys(key, from_ts, to_ts) ==
    LET days == daily_timestamps(from_ts, to_ts)
    IN  [i \in 1..Len(days) |-> get_row_key(key, days[i])]

\* get_timeseries returning points trimmed to [from_ts, to_ts) only
get_timeseries_ExclusiveTo(tbl, key, metrics, from_ts, to_ts) ==
    IF from_ts > to_ts \/ ~(to_ts - from_ts < MAX_GET_SIZE) \/ Len(metrics) = 0
    THEN StoreResult(tbl, NoRet, <<>>, "AssertionError")
    ELSE IF UnknownMetric(metrics) THEN StoreResult(tbl, NoRet, <<>>, "KeyError")
    ELSE LET metric_objects == MetricObjects(metrics)
             res == table_rows(tbl, RowKeys(key, from_ts, to_ts), Columns(metric_objects))
             m == MergeRows(FreshSeries(key, metric_objects), res, 1)
         IN  IF m.exc # "" THEN StoreResult(tbl, NoRet, <<>>, m.exc)
             ELSE StoreResult(tbl, NoRet,
                      [i \in 1..Len(metric_objects) |->
                          trim(m.timeseries[metric_objects[i].id], from_ts, to_ts - 1)],
                      "")

\* TimeSeriesStore.get_timeseries(key, metrics, from_ts, to_ts); the
\* assertion len(metrics[0]) > 1 holds for every metric name of the registry
get_timeseries(tbl, key, metrics, from_ts, to_ts) ==
    IF from_ts > to_ts \/ ~(to_ts - from_ts < MAX_GET_SIZE) \/ Len(metrics) = 0
    THEN StoreResult(tbl, NoRet, <<>>, "AssertionError")
    ELSE IF UnknownMetric(metrics) THEN StoreResult(tbl, NoRet, <<>>, "KeyError")
    ELSE LET metric_objects == MetricObjects(metrics)
             res == table_rows(tbl, RowKeys(key, from_ts, to_ts), Columns(metric_objects))
             m == MergeRows(FreshSeries(key, metric_objects), res, 1)
         IN  IF m.exc # "" THEN StoreResult(tbl, NoRet, <<>>, m.exc)
             ELSE StoreResult(tbl, NoRet,
                      [i \in 1..Len(metric_objects) |->
                          trim(m.timeseries[metric_objects[i].id], from_ts, to_ts)],
                      "")

\* all([len(x) >= count for x in timeseries.values()])
AllHaveCount(timeseries, count) ==
    \A f \in DOMAIN timeseries : SLen(timeseries[f]) >= count

\* the scan loop of get_last_values, from scanned row n on
RECURSIVE ScanLoop(_, _, _, _, _)
ScanLoop(timeseries, res, row_prefix, count, n) ==
    IF n > Len(res) THEN [timeseries |-> timeseries, exc |-> ""]
    ELSE IF ~StartsWith(res[n].row_key, row_prefix)
    THEN [timeseries |-> timeseries, exc |-> ""]
    ELSE LET m == MergeCells(timeseries, res[n].data, 1)
         IN  IF m.exc # "" THEN m
             ELSE IF AllHaveCount(m.timeseries, count) THEN m
             ELSE ScanLoop(m.timeseries, res, row_prefix, count, n + 1)

\* get_last_values scanning one row more than max_days
get_last_values_ScanOneMore(tbl, key, metrics, count, max_days, max_ts) ==
    IF UnknownMetric(metrics) THEN StoreResult(tbl, NoRet, <<>>, "KeyError")
    ELSE LET start_search_row == get_row_key(key, max_ts)
             row_prefix == key \o <<Hash>>
             metric_objects == MetricObjects(metrics)
             res == table_scan(tbl, start_search_row, max_days + 1, Columns(metric_objects))
             m == ScanLoop(FreshSeries(key, metric_objects), res, row_prefix, count, 1)
         IN  IF m.exc # "" THEN StoreResult(tbl, NoRet, <<>>, m.exc)
             ELSE StoreResult(tbl, NoRet,
                      [i \in 1..Len(metric_objects) |->
                          trim_count_newest(m.timeseries[metric_objects[i].id], count)],
                      "")

\* TimeSeriesStore.get_last_values(key, metrics, count, max_days, max_ts)
get_last_values(tbl, key, metrics, count, max_days, max_ts) ==
    IF UnknownMetric(metrics) THEN StoreResult(tbl, NoRet, <<>>, "KeyError")
    ELSE LET start_search_row == get_row_key(key, max_ts)
             row_prefix == key \o <<Hash>>
             metric_objects == MetricObjects(metrics)
             res == table_scan(tbl, start_search_row, max_days, Columns(metric_objects))
             m == ScanLoop(FreshSeries(key, metric_objects), res, row_prefix, count, 1)
         IN  IF m.exc # "" THEN StoreResult(tbl, NoRet, <<>>, m.exc)
             ELSE StoreResult(tbl, NoRet,
                      [i \in 1..Len(metric_objects) |->
                          trim_count_newest(m.timeseries[metric_objects[i].id], count)],
                      "")

\* the loop "for row_key in row_keys: b.delete(row_key, columns=columns)"
RECURSIVE DeleteRows(_, _, _, _)
DeleteRows(tbl, row_keys, columns, n) ==
    IF n > Len(row_keys) THEN tbl
    ELSE DeleteRows(delete(tbl, row_keys[n], columns), row_keys, columns, n + 1)

\* delete_timeseries removing only the cells with from_ts <= ts <= to_ts
delete_timeseries_PartialDay(tbl, ro, key, metrics, from_ts, to_ts) ==
    IF ro THEN StoreResult(tbl, NoRet, <<>>, "RuntimeError: readonly")
    ELSE IF from_ts > to_ts \/ Len(metrics) = 0
    THEN StoreResult(tbl, NoRet, <<>>, "AssertionError")
    ELSE IF UnknownMetric(metrics) THEN StoreResult(tbl, NoRet, <<>>, "KeyError")
    ELSE LET row_keys == RowKeys(key, from_ts, to_ts)
             metric_objects == MetricObjects(metrics)
         IN  IF \E i \in 1..Len(metric_objects) : ~metric_objects[i].delete_possible
             THEN StoreResult(tbl, NoRet, <<>>, "RuntimeError: delete not possible")
             ELSE StoreResult(
                      { c \in tbl : ~(/\ \E n \in 1..Len(row_keys) : c.row = row_keys[n]
                                      /\ c.fam \in Columns(metric_objects)
                                      /\ from_ts <= ParseInt(c.q)
                                      /\ ParseInt(c.q) <= to_ts) },
                      Len(row_keys), <<>>, "")

\* delete_timeseries returning the number of rows that held a requested cell
delete_timeseries_CountExisting(tbl, ro, key, metrics, from_ts, to_ts) ==
    IF ro THEN StoreResult(tbl, NoRet, <<>>, "RuntimeError: readonly")
    ELSE IF from_ts > to_ts \/ Len(metrics) = 0
    THEN StoreResult(tbl, NoRet, <<>>, "AssertionError")
    ELSE IF UnknownMetric(metrics) THEN StoreResult(tbl, NoRet, <<>>, "KeyError")
    ELSE LET row_keys == RowKeys(key, from_ts, to_ts)
             metric_objects == MetricObjects(metrics)
         IN  IF \E i \in 1..Len(metric_objects) : ~metric_objects[i].delete_possible
             THEN StoreResult(tbl, NoRet, <<>>, "RuntimeError: delete not possible")
             ELSE StoreResult(DeleteRows(tbl, row_keys, Columns(metric_objects), 1),
                              Cardinality({ row_keys[n] : n \in 1..Len(row_keys) }
                                          \cap RowsWith(tbl, Columns(metric_objects))),
                              <<>>, "")

\* delete_timeseries testing the delete flag of a metric only after the
\* metrics listed before it have been deleted
delete_timeseries_CheckWhileDeleting(tbl, ro, key, metrics, from_ts, to_ts) ==
    IF ro THEN StoreResult(tbl, NoRet, <<>>, "RuntimeError: readonly")
    ELSE IF from_ts > to_ts \/ Len(metrics) = 0
    THEN StoreResult(tbl, NoRet, <<>>, "AssertionError")
    ELSE IF UnknownMetric(metrics) THEN StoreResult(tbl, NoRet, <<>>, "KeyError")
    ELSE LET row_keys == RowKeys(key, from_ts, to_ts)
             metric_objects == MetricObjects(metrics)
             allowed == { i \in 1..Len(metric_objects) :
                            \A j \in 1..i : metric_objects[j].delete_possible }
             columns == { metric_objects[i].id : i \in allowed }
         IN  IF \E i \in 1..Len(metric_objects) : ~metric_objects[i].delete_possible
             THEN StoreResult(DeleteRows(tbl, row_keys, columns, 1), NoRet, <<>>,
                              "RuntimeError: delete not possible")
             ELSE StoreResult(DeleteRows(tbl, row_keys, Columns(metric_objects), 1),
                              Len(row_keys), <<>>, "")

\* TimeSeriesStore.delete_timeseries(key, metrics, from_ts, to_ts); the
\* assertion len(metrics[0]) > 1 holds for every metric name of the registry
delete_timeseries(tbl, ro, key, metrics, from_ts, to_ts) ==
    IF ro THEN StoreResult(tbl, NoRet, <<>>, "RuntimeError: readonly")
    ELSE IF from_ts > to_ts \/ Len(metrics) = 0
    THEN StoreResult(tbl, NoRet, <<>>, "AssertionError")
    ELSE IF UnknownMetric(metrics) THEN StoreResult(tbl, NoRet, <<>>, "KeyError")
    ELSE LET row_keys == RowKeys(key, from_ts, to_ts)
             metric_objects == MetricObjects(metrics)
         IN  IF \E i \in 1..Len(metric_objects) : ~metric_objects[i].delete_possible
             THEN StoreResult(tbl, NoRet, <<>>, "RuntimeError: delete not possible")
             ELSE StoreResult(DeleteRows(tbl, row_keys, Columns(metric_objects), 1),
                              Len(row_keys), <<>>, "")

-----------------------------------------------------------------------------
\* EventStore

Colon == 58                  \* ":"
Dot == 46                    \* "."
MAX_BATCH == 100             \* insert_events: assert 1 <= len(evs) < 100

\* Event(ts, data) and EventList(key, name, events): the list handed to
\* insert_events, with .events the events in the order given
Event(ts, data) == [ts |-> ts, data |-> data]
EventList(key, name, evs) == [key |-> key, name |-> name, events |-> evs]

\* json.dumps(data).encode("utf-8") of an event whose data is a number
json_dumps(data) == FormatInt(data)

\* EventStore.get_row_key(base_key, name, day_ts): "{}#{}#{}".format(...)
EventStore_get_row_key(base_key, name, day_ts) ==
    base_key \o <<Hash>> \o name \o <<Hash>> \o reverse_day_key(day_ts)

\* the body of "with Batch(dt) as b": one put per event, in the order of
\* the list, so that of two events written to one column the later stays
PutEvents(tbl, key, name, evs) ==
    LET mutation(n) == [row |-> EventStore_get_row_key(key, name, evs[n].ts),
                        fam |-> <<101>>, q |-> FormatInt(evs[n].ts),
                        val |-> json_dumps(evs[n].data)]
        last == { n \in 1..Len(evs) :
                    \A m \in (n + 1)..Len(evs) : evs[m].ts # evs[n].ts }
        written == { mutation(n) : n \in last }
        columns == { <<w.row, w.fam, w.q>> : w \in written }
    IN  { c \in tbl : <<c.row, c.fam, c.q>> \notin columns } \cup written

\* insert_events accepting a batch of MAX_BATCH events as well
insert_events_AcceptFull(tbl, ro, evl) ==
    IF ro THEN StoreResult(tbl, NoRet, <<>>, "RuntimeError: readonly")
    ELSE IF ~(1 <= Len(evl.events) /\ Len(evl.events) <= MAX_BATCH)
    THEN StoreResult(tbl, NoRet, <<>>, "AssertionError")
    ELSE StoreResult(PutEvents(tbl, evl.key, evl.name, evl.events),
                     Len(evl.events), <<>>, "")

\* insert_events with the batch-size assertion ahead of the read-only test
insert_events_AssertFirst(tbl, ro, evl) ==
    IF ~(1 <= Len(evl.events) /\ Len(evl.events) < MAX_BATCH)
    THEN StoreResult(tbl, NoRet, <<>>, "AssertionError")
    ELSE IF ro THEN StoreResult(tbl, NoRet, <<>>, "RuntimeError: readonly")
    ELSE StoreResult(PutEvents(tbl, evl.key, evl.name, evl.events),
                     Len(evl.events), <<>>, "")

\* EventStore.insert_events(events)
insert_events(tbl, ro, evl) ==
    IF ro THEN StoreResult(tbl, NoRet, <<>>, "RuntimeError: readonly")
    ELSE LET evs == evl.events
         IN  IF ~(1 <= Len(evs) /\ Len(evs) < MAX_BATCH)
             THEN StoreResult(tbl, NoRet, <<>>, "AssertionError")
             ELSE StoreResult(PutEvents(tbl, evl.key, evl.name, evs),
                              Len(evl.events), <<>>, "")

-----------------------------------------------------------------------------
\* ActivityStore

\* an optional argument: None, or the value given
None == <<>>
Some(x) == <<x>>

\* s.split(sep) for a one-character separator
RECURSIVE split(_, _)
split(s, sep) ==
    IF \E i \in 1..Len(s) : s[i] = sep
    THEN LET i == CHOOSE j \in 1..Len(s) :
                      s[j] = sep /\ \A k \in 1..(j - 1) : s[k] # sep
         IN  <<SubSeq(s, 1, i - 1)>> \o split(SubSeq(s, i + 1, Len(s)), sep)
    ELSE <<s>>

\* ActivityStore.get_hour_key(ts): "{:02d}".format(tm_hour)
get_hour_key(ts) == FormatD(gmtime(ts).tm_hour, 2)

\* the loop "for p in parent_ids" of get_insert_keys, from parent n on
RECURSIVE ParentKeys(_, _, _, _)
ParentKeys(parent_ids, reverse_day_ts, reader_id, n) ==
    IF n > Len(parent_ids) THEN [ok |-> TRUE, row_keys |-> <<>>]
    ELSE LET p == parent_ids[n]
         IN  IF ~(3 <= Len(p) /\ Len(p) <= 32) THEN [ok |-> FALSE, row_keys |-> <<>>]
             ELSE LET rest == ParentKeys(parent_ids, reverse_day_ts, reader_id, n + 1)
                  IN  [ok |-> rest.ok,
                       row_keys |-> <<p \o <<Hash>> \o reverse_day_ts \o <<Hash>> \o reader_id>>
                                    \o rest.row_keys]

\* get_insert_keys that lists the total row after the rows of the parents
get_insert_keys_TotalLast(reader_id, day_ts, parent_ids) ==
    LET reverse_day_ts == reverse_day_key(day_ts)
        total_key == <<116, Hash>> \o reverse_day_ts \o <<Hash>> \o reader_id
    IN  IF parent_ids = None THEN [ok |-> TRUE, row_keys |-> <<total_key>>]
        ELSE [ok |-> TRUE,
              row_keys |-> ParentKeys(parent_ids[1], reverse_day_ts, reader_id, 1).row_keys
                           \o <<total_key>>]

\* ActivityStore.get_insert_keys(reader_id, day_ts, parent_ids): the total
\* row and one row per parent; ok is FALSE when an assertion fails
get_insert_keys(reader_id, day_ts, parent_ids) ==
    IF ~(3 <= Len(reader_id) /\ Len(reader_id) <= 32) THEN [ok |-> FALSE, row_keys |-> <<>>]
    ELSE LET reverse_day_ts == reverse_day_key(day_ts)
             total_key == <<116, Hash>> \o reverse_day_ts \o <<Hash>> \o reader_id
         IN  IF parent_ids = None THEN [ok |-> TRUE, row_keys |-> <<total_key>>]
             ELSE IF ~(1 <= Len(parent_ids[1]) /\ Len(parent_ids[1]) <= 3)
             THEN [ok |-> FALSE, row_keys |-> <<>>]
             ELSE LET rest == ParentKeys(parent_ids[1], reverse_day_ts, reader_id, 1)
                  IN  [ok |-> rest.ok, row_keys |-> <<total_key>> \o rest.row_keys]

\* the value of a counter cell, 0 when the cell is absent
CounterValue(tbl, row, fam, q) ==
    LET found == { c \in tbl : c.row = row /\ c.fam = fam /\ c.q = q }
    IN  IF found = {} THEN 0 ELSE (CHOOSE c \in found : TRUE).val

\* counter_inc that writes the value added instead of adding it
counter_inc_Overwrite(tbl, row, column, value) ==
    LET parts == split(column, Colon)
    IN  IF Len(parts) # 2 THEN [tbl |-> tbl, ret |-> NoRet, exc |-> "ValueError"]
        ELSE [tbl |-> put(tbl, row, { [fam |-> parts[1], q |-> parts[2],
                                       val |-> value] }),
              ret |-> value, exc |-> ""]

\* ActivityStore.counter_inc(table, row, column, value): one atomic
\* read-modify-write of the counter cell, returning the new value
counter_inc(tbl, row, column, value) ==
    LET parts == split(column, Colon)
    IN  IF Len(parts) # 2 THEN [tbl |-> tbl, ret |-> NoRet, exc |-> "ValueError"]
        ELSE LET int_value == CounterValue(tbl, row, parts[1], parts[2]) + value
             IN  [tbl |-> put(tbl, row, { [fam |-> parts[1], q |-> parts[2],
                                            val |-> int_value] }),
                  ret |-> int_value, exc |-> ""]

\* the loop "for r in row_keys" of incr_activity, from row n on
RECURSIVE IncrRows(_, _, _, _, _, _)
IncrRows(tbl, row_keys, column, value, res, n) ==
    IF n > Len(row_keys) THEN StoreResult(tbl, NoRet, res, "")
    ELSE LET r == counter_inc(tbl, row_keys[n], column, value)
         IN  IF r.exc # "" THEN StoreResult(r.tbl, NoRet, <<>>, r.exc)
             ELSE IncrRows(r.tbl, row_keys, column, value, Append(res, r.ret), n + 1)

\* ActivityStore.incr_activity(reader_id, device_id, timestamp, parent_ids, value)
incr_activity(tbl, ro, reader_id, device_id, timestamp, parent_ids, value) ==
    IF ro THEN StoreResult(tbl, NoRet, <<>>, "RuntimeError: readonly")
    ELSE LET keys == get_insert_keys(reader_id, timestamp, parent_ids)
             column == <<99, Colon>> \o get_hour_key(timestamp) \o <<Dot>> \o device_id
         IN  IF ~keys.ok THEN StoreResult(tbl, NoRet, <<>>, "AssertionError")
             ELSE IncrRows(tbl, keys.row_keys, column, value, <<>>, 1)

-----------------------------------------------------------------------------
\* Range-bounded reads of the EventStore and the ActivityStore

EventStore_MAX_GET_SIZE == 45 * DaySecs
ActivityStore_MAX_GET_SIZE == 90 * DaySecs

\* json.loads of the value json_dumps wrote
json_loads(value) == ParseInt(value)

\* sorted(events, key = lambda x: x.ts) of events with distinct timestamps
RECURSIVE SortEvents(_)
SortEvents(S) ==
    IF S = {} THEN <<>>
    ELSE LET m == CHOOSE x \in S : \A y \in S : x.ts <= y.ts
         IN  <<m>> \o SortEvents(S \ {m})

\* the loops of get_events over the rows and their cells: the events of the
\* cells whose column "e:{ts}" has two parts and a ts within the range
EventsOf(res, from_ts, to_ts) ==
    { Event(ParseInt(split(c.fam \o <<Colon>> \o c.q, Colon)[2]), json_loads(c.val))
      : c \in { d \in UNION { { res[i].data[j] : j \in 1..Len(res[i].data) }
                              : i \in 1..Len(res) } :
                  /\ Len(split(d.fam \o <<Colon>> \o d.q, Colon)) = 2
                  /\ from_ts <= ParseInt(d.q)
                  /\ ParseInt(d.q) <= to_ts } }

\* EventStore.get_events(key, name, from_ts, to_ts)
get_events(tbl, key, name, from_ts, to_ts) ==
    IF from_ts > to_ts \/ ~(to_ts - from_ts < EventStore_MAX_GET_SIZE)
    THEN StoreResult(tbl, NoRet, <<>>, "AssertionError")
    ELSE LET days == daily_timestamps(from_ts, to_ts)
             row_keys == [i \in 1..Len(days) |-> EventStore_get_row_key(key, name, days[i])]
             res == table_rows(tbl, row_keys, { <<101>> })
         IN  StoreResult(tbl, NoRet,
                         <<EventList(key, name, SortEvents(EventsOf(res, from_ts, to_ts)))>>,
                         "")

\* ActivityStore.reverse_day_key_to_day(reverse_key)
reverse_day_key_to_day(reverse_key) ==
    LET y == 5000 - ParseInt(SubSeq(reverse_key, 1, 4))
        m == 50 - ParseInt(SubSeq(reverse_key, 5, 6))
        d == 50 - ParseInt(SubSeq(reverse_key, 7, 8))
    IN  FormatD(y, 4) \o FormatD(m, 2) \o FormatD(d, 2)

\* ActivityStore.get_row_key(base_key, day_ts, reader_id), reader_id optional
ActivityStore_get_row_key(base_key, day_ts, reader_id) ==
    LET row_key == base_key \o <<Hash>> \o reverse_day_key(day_ts)
    IN  IF reader_id = None THEN row_key ELSE row_key \o <<Hash>> \o reader_id[1]

\* the loops of get_activity_for_reader over the rows and their cells: one
\* (day_hour, device, counter) per cell whose column is "c:{HH}.{device}"
ActivityEntries(res) ==
    UNION { LET parts == split(res[i].row_key, Hash)
                day == reverse_day_key_to_day(parts[Len(parts) - 1])
            IN  { [day_hour |-> day \o split(c.q, Dot)[1],
                   device |-> split(c.q, Dot)[2], counter |-> c.val]
                  : c \in { d \in { res[i].data[j] : j \in 1..Len(res[i].data) } :
                              /\ Len(split(d.fam \o <<Colon>> \o d.q, Colon)) = 2
                              /\ Len(split(d.q, Dot)) = 2 } }
            : i \in 1..Len(res) }

\* ActivityStore.get_activity_for_reader(reader_id, from_ts, to_ts): per
\* day_hour in ascending order, the counters of every device
get_activity_for_reader(tbl, reader_id, from_ts, to_ts) ==
    IF from_ts > to_ts \/ ~(to_ts - from_ts < ActivityStore_MAX_GET_SIZE)
    THEN StoreResult(tbl, NoRet, <<>>, "AssertionError")
    ELSE LET daily_ts == daily_timestamps(from_ts, to_ts)
             row_keys == [i \in 1..Len(daily_ts) |->
                             ActivityStore_get_row_key(<<116>>, daily_ts[i], Some(reader_id))]
             res == table_rows(tbl, row_keys, { <<99>> })
             entries == ActivityEntries(res)
             keys == SortRows({ e.day_hour : e \in entries })
         IN  StoreResult(tbl, NoRet,
                         [k \in 1..Len(keys) |->
                             [day_hour |-> keys[k],
                              devices |-> { [device |-> e.device, counters |-> <<e.counter>>]
                                            : e \in { x \in entries : x.day_hour = keys[k] } }]],
                         "")

-----------------------------------------------------------------------------
\* Connection and Table (connection.py)

\* Connection.get_instance() run by one thread alone: the pool grows by a
\* new instance while it holds fewer than pool_size, otherwise
\* random.choice returns one of the pooled instances. The set of the
\* possible (pool afterwards, instance returned)
get_instance(insts) ==
    IF Len(insts) < PoolSize
    THEN { [instances |-> Append(insts, Len(insts) + 1), con |-> Len(insts) + 1] }
    ELSE { [instances |-> insts, con |-> insts[i]] : i \in 1..Len(insts) }

\* column.split(":", 1): the text before the first colon and the rest
split_once(s, sep) ==
    IF \E i \in 1..Len(s) : s[i] = sep
    THEN LET i == CHOOSE j \in 1..Len(s) :
                      s[j] = sep /\ \A k \in 1..(j - 1) : s[k] # sep
         IN  <<SubSeq(s, 1, i - 1), SubSeq(s, i + 1, Len(s))>>
    ELSE <<s>>

\* outcome of a call on a table handle
TableResult(tbl, r, o, e) == [cells |-> tbl, ret |-> r, out |-> o, exc |-> e]

\* Table.write_cell(row_id, column, value)
Table_write_cell(tbl, row_id, column, value) ==
    LET parts == split_once(column, Colon)
    IN  IF Len(parts) # 2 THEN TableResult(tbl, NoRet, <<>>, "ValueError")
        ELSE TableResult(put(tbl, row_id, { [fam |-> parts[1], q |-> parts[2],
                                              val |-> value] }),
                         1, <<>>, "")

\* Table.delete_row(row_id, column_families): the whole row when
\* column_families is None, otherwise the cells of the families listed
Table_delete_row(tbl, row_id, column_families) ==
    IF column_families = None
    THEN TableResult({ c \in tbl : c.row # row_id }, 1, <<>>, "")
    ELSE TableResult(delete(tbl, row_id,
                            { column_families[1][i] : i \in 1..Len(column_families[1]) }),
                     1, <<>>, "")

\* the cells one RowUpsert(row_key, cells) sets, or ValueError for a column
\* without a colon
RECURSIVE UpsertRows(_, _, _)
UpsertRows(tbl, row_upserts, n) ==
    IF n > Len(row_upserts) THEN TableResult(tbl, NoRet, [i \in 1..Len(row_upserts) |-> 0], "")
    ELSE LET r == row_upserts[n]
         IN  IF \E c \in r.cells : Len(split_once(c.column, Colon)) # 2
             THEN TableResult(tbl, NoRet, <<>>, "ValueError")
             ELSE UpsertRows(put(tbl, r.row_key,
                                 { [fam |-> split_once(c.column, Colon)[1],
                                    q |-> split_once(c.column, Colon)[2],
                                    val |-> c.value] : c \in r.cells }),
                             row_upserts, n + 1)

\* Table.upsert_rows(row_upserts): the rows are sent by one mutate_rows
\* call after every RowUpsert was converted, so a ValueError leaves the
\* table as it was; the responses all carry code 0
Table_upsert_rows(tbl, row_upserts) ==
    LET r == UpsertRows(tbl, row_upserts, 1)
    IN  IF r.exc # "" THEN TableResult(tbl, NoRet, <<>>, r.exc) ELSE r

\* row.set_cell(column_family, col, value) for every cell of RowUpsert r
UpsertCells(r) ==
    { [fam |-> split_once(c.column, Colon)[1], q |-> split_once(c.column, Colon)[2],
       val |-> c.value] : c \in r.cells }

\* mutate_rows that applies no row once a row of the batch has failed
mutate_rows_Rollback(tbl, row_upserts, responses, n) ==
    IF \E i \in 1..Len(responses) : responses[i].code # 0 THEN tbl
    ELSE put(tbl, row_upserts[1].row_key, UpsertCells(row_upserts[1]))

\* _low_level.mutate_rows(rows) answered by responses, one status per row
\* in batch order: the mutation of a row whose status has code 0 is
\* written, the mutation of any other row is not
RECURSIVE mutate_rows(_, _, _, _)
mutate_rows(tbl, row_upserts, responses, n) ==
    IF n > Len(row_upserts) THEN tbl
    ELSE mutate_rows(IF responses[n].code = 0
                     THEN put(tbl, row_upserts[n].row_key, UpsertCells(row_upserts[n]))
                     ELSE tbl,
                     row_upserts, responses, n + 1)

\* for r in responses: if r.code != 0: raise ValueError(... r.code, r.message)
RECURSIVE CheckResponses(_, _)
CheckResponses(responses, n) ==
    IF n > Len(responses) THEN [exc |-> "", args |-> <<>>]
    ELSE IF responses[n].code # 0
         THEN [exc |-> "ValueError",
               args |-> <<responses[n].code, responses[n].message>>]
         ELSE CheckResponses(responses, n + 1)

\* Table.upsert_rows(row_upserts) when mutate_rows answers with responses;
\* sent tells whether the batch reached mutate_rows, args are the values
\* formatted into the message of the error raised
upsert_rows(tbl, row_upserts, responses) ==
    IF \E i \in 1..Len(row_upserts) :
           \E c \in row_upserts[i].cells : Len(split_once(c.column, Colon)) # 2
    THEN [cells |-> tbl, ret |-> NoRet, out |-> <<>>, exc |-> "ValueError",
          args |-> <<>>, sent |-> FALSE]
    ELSE LET written == mutate_rows(tbl, row_upserts, responses, 1)
             checked == CheckResponses(responses, 1)
         IN  [cells |-> written, ret |-> NoRet,
              out |-> IF checked.exc = "" THEN [i \in 1..Len(responses) |-> responses[i].code]
                      ELSE <<>>,
              exc |-> checked.exc, args |-> checked.args, sent |-> TRUE]

\* Table.increment_counter(row_id, column, value)
Table_increment_counter(tbl, row_id, column, value) ==
    LET parts == split(column, Colon)
    IN  IF Len(parts) # 2 THEN TableResult(tbl, NoRet, <<>>, "ValueError")
        ELSE LET int_value == CounterValue(tbl, row_id, parts[1], parts[2]) + value
             IN  TableResult(put(tbl, row_id, { [fam |-> parts[1], q |-> parts[2],
                                                 val |-> int_value] }),
                             int_value, <<>>, "")

\* Connection.write_cell(table_id, row_id, column, value), on the cells of
\* the table get_table(table_id) hands out
Connection_write_cell(tbl, row_id, column, value) ==
    Table_write_cell(tbl, row_id, column, value)

-----------------------------------------------------------------------------
\* Container machine: one TimeSeries and the calls made on it

\* timestamps offered to insert_point / insert_storage_item; the last one
\* does not fit array.array("I")
InputTs == SeriesTs \cup {0 - 1}

\* (offset, value) payloads: UTC, UTC-1h with a value that is not a single-
\* precision float, and an offset of 2^31 s that does not fit array.array("i")
InputPoints == { <<0, 1>>, <<0 - 1800, F32Mant + 1>>, <<HalfInt32, 1>> }

\* stored cells offered to insert_storage_item, encoded by the cell codec
InputItems == { EncodeCell(p[1], p[2]) : p \in { q \in InputPoints : FitsI32(q[1]) } }

TrimArgs == SeriesTs \cup {TsBase + 1}

\* no event, no counter, an empty pool, no thread, and a writable client
OthersIdle ==
    /\ events = {}
    /\ activity = {}
    /\ instances = <<>>
    /\ threads = <<>>
    /\ client = [read_only |-> FALSE, config |-> [READ_ONLY |-> FALSE, STAGING |-> FALSE]]

StoreIdle ==
    /\ read_only = FALSE
    /\ cells = {}
    /\ cellsPre = {}
    /\ out = <<>>
    /\ nIns = 0
    /\ stored = {}
    /\ OthersIdle

InitSeries ==
    /\ series = NewSeries(K1, "ph")
    /\ pre = NewSeries(K1, "ph")
    /\ call = [op |-> "init"]
    /\ ret = NoRet
    /\ exc = ""
    /\ StoreIdle

SeriesStep(c, r) ==
    /\ SLen(r.s) <= MaxLen
    /\ pre' = series
    /\ call' = c
    /\ series' = r.s
    /\ ret' = r.ret
    /\ exc' = r.exc
    /\ UNCHANGED <<read_only, cells, cellsPre, out, nIns, stored>>
    /\ UNCHANGED others

InsertPoint ==
    \E t \in InputTs, p \in InputPoints, ow \in BOOLEAN :
        SeriesStep([op |-> "insert_point", timestamp |-> t, offset |-> p[1],
                    value |-> p[2], overwrite |-> ow],
                   insert_point(series, t, p[1], p[2], ow))

InsertStorageItem ==
    \E t \in InputTs, by \in InputItems, ow \in BOOLEAN :
        SeriesStep([op |-> "insert_storage_item", timestamp |-> t, by |-> by,
                    overwrite |-> ow],
                   insert_storage_item(series, t, by, ow))

Trim ==
    \E a \in TrimArgs, b \in TrimArgs :
        SeriesStep([op |-> "trim", ts_min |-> a, ts_max |-> b],
                   Returned(trim(series, a, b), NoRet))

NextInsertPoint == InsertPoint

SpecInsertPoint == InitSeries /\ [][NextInsertPoint]_vars

NextStorageItem == InsertStorageItem

SpecStorageItem == InitSeries /\ [][NextStorageItem]_vars

NextTrim == InsertPoint \/ Trim

SpecTrim == InitSeries /\ [][NextTrim]_vars

-----------------------------------------------------------------------------
\* Store machine: the table "timeseries" and the calls made on the store

\* the (offset, value) every point of an inserted series carries; the pairs
\* differ between the targets, so a point read back under the wrong key or
\* metric shows
PayloadOf(key, metric) ==
    IF key = K2 THEN <<1800, 3>>
    ELSE IF metric = "ph" THEN <<0, 1>>
    ELSE IF metric = "act" THEN <<0 - 1800, F32Mant + 1>>
    ELSE <<3600, F32Mant + 5>>

\* TimeSeries(key, metric, values): insert() calls insert_point per point
RECURSIVE InsertAll(_, _, _)
InsertAll(s, pts, n) ==
    IF n > Len(pts) THEN s
    ELSE InsertAll(insert_point(s, pts[n][1], pts[n][2], pts[n][3], FALSE).s, pts, n + 1)

\* the series of a target with the points TsOf(a) .. TsOf(b) (none if a > b)
RunSeries(key, metric, a, b) ==
    LET p == PayloadOf(key, metric)
    IN  InsertAll(NewSeries(key, metric),
                  [i \in 1..(b - a + 1) |-> <<TsOf(a + i - 1), p[1], p[2]>>], 1)

\* the runs a..b of 1..MaxPoints consecutive timestamp indices
Runs ==
    { q \in (0..MaxTsIdx) \X (0..MaxTsIdx) : q[1] <= q[2] /\ q[2] - q[1] < MaxPoints }

\* the series offered to insert_timeseries: every run for every metric of
\* key k1, one series of another key, and one empty series
InsertInputs ==
    { RunSeries(K1, m, r[1], r[2]) : m \in METRIC_NAMES, r \in Runs }
    \cup { RunSeries(K2, "ph", 0, MaxPoints - 1), NewSeries(K1, "ph") }

\* the metric lists requested
RequestLists == { <<"ph">>, <<"ph", "act">>, <<"ph", "temp">> }

\* the metric lists passed to get_last_values
LastLists == { <<"ph">>, <<"ph", "act">> }

QueryKeys == { K1 }

\* the (from_ts, to_ts) passed to get_timeseries and delete_timeseries:
\* every range with from_ts <= to_ts, and one with from_ts > to_ts
Ranges ==
    { r \in StoreTs \X StoreTs : r[1] <= r[2] } \cup { <<TsOf(1), TsOf(0)>> }

\* the max_ts passed to get_last_values: on the latest day, and one
\* timestamp earlier, so that newer rows exist that the scan must skip
LastTs == { TsOf(MaxTsIdx - 1), TsOf(MaxTsIdx) }

\* the calls whose arguments and result are recorded; a behaviour is a
\* sequence of at most MaxInserts inserts followed by at most one of them
\* (reads leave the table as it is, so a call after a read sees what a call
\* in its place sees)
ObservedOps == { "get_timeseries", "get_last_values", "delete_timeseries" }

InitStore ==
    /\ read_only \in BOOLEAN
    /\ series = NewSeries(K1, "ph")
    /\ pre = NewSeries(K1, "ph")
    /\ call = [op |-> "init"]
    /\ ret = NoRet
    /\ exc = ""
    /\ cells = {}
    /\ cellsPre = {}
    /\ out = <<>>
    /\ nIns = 0
    /\ stored = {}
    /\ OthersIdle

\* the points of an accepted series replace the accepted points of the same
\* (key, metric, timestamp)
Accept(acc, ts) ==
    { p \in acc : ~(p.key = ts.key /\ p.metric = ts.metric
                     /\ \E i \in 1..SLen(ts) : ts.timestamps[i] = p.ts) }
    \cup { [key |-> ts.key, metric |-> ts.metric, ts |-> ts.timestamps[i],
            offset |-> ts.offsets[i], value |-> ts.values[i]] : i \in 1..SLen(ts) }

InsertTimeseries ==
    /\ call.op \notin ObservedOps
    /\ nIns < MaxInserts
    /\ \E ts \in InsertInputs :
        LET r == insert_timeseries(cells, read_only, ts)
        IN  /\ cells' = r.cells
            /\ ret' = r.ret
            /\ exc' = r.exc
            /\ stored' = IF r.exc = "" THEN Accept(stored, ts) ELSE stored
    /\ call' = [op |-> "insert_timeseries"]
    /\ nIns' = nIns + 1
    /\ UNCHANGED <<read_only, series, pre, cellsPre, out>>
    /\ UNCHANGED others

Observe(c, r) ==
    /\ nIns' = MaxInserts
    /\ call' = c
    /\ cellsPre' = cells
    /\ cells' = r.cells
    /\ ret' = r.ret
    /\ out' = r.out
    /\ exc' = r.exc
    /\ UNCHANGED <<read_only, series, pre, stored>>
    /\ UNCHANGED others

GetTimeseries ==
    /\ call.op \notin ObservedOps
    /\ \E key \in QueryKeys, metrics \in RequestLists, r \in Ranges :
        Observe([op |-> "get_timeseries", key |-> key, metrics |-> metrics,
                 from_ts |-> r[1], to_ts |-> r[2]],
                get_timeseries(cells, key, metrics, r[1], r[2]))

GetLastValues ==
    /\ call.op \notin ObservedOps
    /\ \E key \in QueryKeys, metrics \in LastLists, count \in 0..MaxCount,
          max_days \in 1..MaxDaysArg, max_ts \in LastTs :
        Observe([op |-> "get_last_values", key |-> key, metrics |-> metrics,
                 count |-> count, max_days |-> max_days, max_ts |-> max_ts],
                get_last_values(cells, key, metrics, count, max_days, max_ts))

DeleteTimeseries ==
    /\ call.op \notin ObservedOps
    /\ \E key \in QueryKeys, metrics \in RequestLists, r \in Ranges :
        Observe([op |-> "delete_timeseries", key |-> key, metrics |-> metrics,
                 from_ts |-> r[1], to_ts |-> r[2]],
                delete_timeseries(cells, read_only, key, metrics, r[1], r[2]))

NextGet == InsertTimeseries \/ GetTimeseries

SpecGet == InitStore /\ [][NextGet]_vars

NextLast == InsertTimeseries \/ GetLastValues

SpecLast == InitStore /\ [][NextLast]_vars

NextDelete == InsertTimeseries \/ DeleteTimeseries

SpecDelete == InitStore /\ [][NextDelete]_vars

-----------------------------------------------------------------------------
\* Python floats: IEEE 754 binary64, 53 significant bits, round to nearest,
\* ties to even. A natural number of any size is a sequence of limbs of 15
\* bits, lowest limb first; a non-negative float is [m, e] for m * 2^e with
\* m of four limbs and exactly DoubleMant bits (zero is m = 0, e = 0)

DoubleMant == 53             \* significant bits of a binary64 float
LimbBits == 15                \* bits per limb of the arithmetic below
Base == Pow2(LimbBits)

Limb(a, i) == IF 1 <= i /\ i <= Len(a) THEN a[i] ELSE 0

\* the number a in exactly n limbs (a < Base^n)
Limbs(a, n) == [i \in 1..n |-> Limb(a, i)]

\* the number of bits of an int 0 <= x < Base
RECURSIVE IntBits(_)
IntBits(x) == IF x = 0 THEN 0 ELSE 1 + IntBits(x \div 2)

\* the number of bits of a
BitLen(a) ==
    IF \A i \in 1..Len(a) : a[i] = 0 THEN 0
    ELSE LET top == CHOOSE i \in 1..Len(a) :
                        a[i] # 0 /\ \A k \in (i + 1)..Len(a) : a[k] = 0
         IN  LimbBits * (top - 1) + IntBits(a[top])

\* a * 2^k
BShl(a, k) ==
    LET s == k \div LimbBits
        r == k % LimbBits
    IN  [i \in 1..(Len(a) + s + 1) |->
            ((Limb(a, i - s) * Pow2(r)) % Base) + (Limb(a, i - s - 1) \div Pow2(LimbBits - r))]

\* a \div 2^k
BShr(a, k) ==
    LET s == k \div LimbBits
        r == k % LimbBits
    IN  [i \in 1..Len(a) |->
            (Limb(a, i + s) \div Pow2(r)) + ((Limb(a, i + s + 1) % Pow2(r)) * Pow2(LimbBits - r))]

\* bit k of a, the lowest being bit 1, and whether a bit below bit k is set
BitAt(a, k) == (Limb(a, (k - 1) \div LimbBits + 1) \div Pow2((k - 1) % LimbBits)) % 2
BitsBelow(a, k) == \E j \in 1..(k - 1) : BitAt(a, j) = 1

\* a + b from limb i on, with a carry, in n limbs
RECURSIVE BAddFrom(_, _, _, _, _)
BAddFrom(a, b, i, carry, n) ==
    IF i > n THEN <<>>
    ELSE LET sum == Limb(a, i) + Limb(b, i) + carry
         IN  <<sum % Base>> \o BAddFrom(a, b, i + 1, sum \div Base, n)

BAdd(a, b) == BAddFrom(a, b, 1, 0, (IF Len(a) > Len(b) THEN Len(a) ELSE Len(b)) + 1)

\* a - b for a >= b, from limb i on, with a borrow
RECURSIVE BSubFrom(_, _, _, _)
BSubFrom(a, b, i, borrow) ==
    IF i > Len(a) THEN <<>>
    ELSE LET d == Limb(a, i) - Limb(b, i) - borrow
         IN  <<d % Base>> \o BSubFrom(a, b, i + 1, IF d < 0 THEN 1 ELSE 0)

BSub(a, b) == BSubFrom(a, b, 1, 0)

\* a < b
BLess(a, b) ==
    LET n == IF Len(a) > Len(b) THEN Len(a) ELSE Len(b)
    IN  \E i \in 1..n :
            /\ Limb(a, i) < Limb(b, i)
            /\ \A k \in (i + 1)..n : Limb(a, k) = Limb(b, k)

\* a \div n and a % n for 0 < n < 32: long division from limb i down
RECURSIVE BDivFrom(_, _, _, _)
BDivFrom(a, n, i, rem) ==
    IF i = 0 THEN [q |-> <<>>, r |-> rem]
    ELSE LET cur == rem * Base + a[i]
             rest == BDivFrom(a, n, i - 1, cur % n)
         IN  [q |-> Append(rest.q, cur \div n), r |-> rest.r]

BDiv(a, n) == BDivFrom(a, n, Len(a), 0)

\* the float nearest to (m + f) * 2^e, where 0 < f < 1 if sticky and f = 0
\* otherwise: m is cut to DoubleMant bits, the cut-off part decides the
\* rounding, a tie goes to the even neighbour (with sticky, m has more
\* than DoubleMant bits)
RoundDouble(m, sticky, e) ==
    LET len == BitLen(m)
        k == len - DoubleMant
    IN  IF len = 0 THEN [m |-> Limbs(<<>>, 4), e |-> 0]
        ELSE IF k <= 0 THEN [m |-> Limbs(BShl(m, 0 - k), 4), e |-> e + k]
        ELSE LET kept == BShr(m, k)
                 below == sticky \/ BitsBelow(m, k)
                 up == BitAt(m, k) = 1 /\ (below \/ BitAt(kept, 1) = 1)
                 cut == IF up THEN BAdd(kept, <<1>>) ELSE kept
             IN  IF BitLen(cut) > DoubleMant
                 THEN [m |-> Limbs(BShr(cut, 1), 4), e |-> e + k + 1]
                 ELSE [m |-> Limbs(cut, 4), e |-> e + k]

\* float(n) for an int 0 <= n < 2^31
FromInt(n) == RoundDouble(<<n % Base, (n \div Base) % Base, n \div (Base * Base)>>, FALSE, 0)

\* the mantissas of a and b over their smaller exponent
Aligned(a, b) ==
    LET e == IF a.e < b.e THEN a.e ELSE b.e
    IN  [a |-> BShl(a.m, a.e - e), b |-> BShl(b.m, b.e - e), e |-> e]

\* a + b, a < b, and a - b for a >= b, of floats
FAdd(a, b) ==
    IF a.m = Limbs(<<>>, 4) THEN b
    ELSE IF b.m = Limbs(<<>>, 4) THEN a
    ELSE LET x == Aligned(a, b) IN RoundDouble(BAdd(x.a, x.b), FALSE, x.e)

FLess(a, b) ==
    IF b.m = Limbs(<<>>, 4) THEN FALSE
    ELSE IF a.m = Limbs(<<>>, 4) THEN TRUE
    ELSE LET x == Aligned(a, b) IN BLess(x.a, x.b)

FSub(a, b) ==
    IF b.m = Limbs(<<>>, 4) THEN a
    ELSE LET x == Aligned(a, b) IN RoundDouble(BSub(x.a, x.b), FALSE, x.e)

\* a / n for a float a and an int 0 < n < 32 (the int converts exactly): the
\* dividend is extended by 7 bits, so that the quotient has more than
\* DoubleMant + 1 bits and the remainder only decides ties
FDivInt(a, n) ==
    LET d == BDiv(BShl(a.m, 7), n)
    IN  RoundDouble(d.q, d.r # 0, a.e - 7)

-----------------------------------------------------------------------------
\* TimeSeries.hourly, daily and aggregation

\* helper.ts_hourly_left(ts) and ts_hourly_right(ts): the full hour at or
\* before ts, and the next full hour minus one
ts_hourly_left(ts) == ts - (ts % 3600)
ts_hourly_right(ts) == ts_hourly_left(ts) + 3600 - 1

\* pendulum.from_timestamp(ts, offset / 3600.0): a date-time of the instant
\* ts in the fixed zone of that offset
from_timestamp(ts, offset) == [ts |-> ts, offset |-> offset]

\* the namedtuple Point
Point(ts, value, dt) == [ts |-> ts, value |-> value, dt |-> dt]

\* TimeSeries._at(i), 0-based i
at(s, i) ==
    Point(s.timestamps[i + 1], s.values[i + 1],
          from_timestamp(s.timestamps[i + 1], s.offsets[i + 1]))

\* a dict value of a Dict series is [dict |-> contents], a float is [m, e]
IsDict(v) == "dict" \in DOMAIN v

\* EventList(key, name, events): a TimeSeries of series type DICTSERIES
EventList_TimeSeries(key, name, evs) == InsertAll(NewSeries(key, name), evs, 1)

\* the generators hourly() and daily(), from index i on: the runs of points
\* within the hour or day of the first point of the run
RECURSIVE GroupsFrom(_, _, _)
GroupsFrom(s, group, i) ==
    IF i >= Len(s.timestamps) THEN <<>>
    ELSE LET first == s.timestamps[i + 1]
             lower_bound == IF group = "hourly" THEN ts_hourly_left(first)
                            ELSE ts_daily_left(first)
             upper_bound == IF group = "hourly" THEN ts_hourly_right(first)
                            ELSE ts_daily_right(first)
             j == BucketRun(s.timestamps, i, lower_bound, upper_bound, 0)
         IN  << [x \in 1..j |-> at(s, i + x - 1)] >> \o GroupsFrom(s, group, i + j)

hourly(s) == GroupsFrom(s, "hourly", 0)
daily(s) == GroupsFrom(s, "daily", 0)

\* outcome of a built-in applied to the values of a bucket
Value(v) == [ok |-> TRUE, v |-> v]
TypeError == [ok |-> FALSE, v |-> 0]

\* sum(x): 0 + x[0] + x[1] + ..., a TypeError at the first dict
RECURSIVE SumFrom(_, _, _)
SumFrom(x, n, acc) ==
    IF n > Len(x) THEN Value(acc)
    ELSE IF IsDict(x[n]) THEN TypeError
    ELSE SumFrom(x, n + 1, FAdd(acc, x[n]))

py_sum(x) == SumFrom(x, 1, FromInt(0))

\* min(x) and max(x) of a non-empty list: the only element as it is,
\* otherwise the elements are compared, a TypeError for dicts
py_min(x) ==
    IF Len(x) = 1 THEN Value(x[1])
    ELSE IF \E i \in 1..Len(x) : IsDict(x[i]) THEN TypeError
    ELSE Value(x[CHOOSE i \in 1..Len(x) :
                    /\ \A k \in 1..Len(x) : ~FLess(x[k], x[i])
                    /\ \A k \in 1..(i - 1) : FLess(x[i], x[k])])

py_max(x) ==
    IF Len(x) = 1 THEN Value(x[1])
    ELSE IF \E i \in 1..Len(x) : IsDict(x[i]) THEN TypeError
    ELSE Value(x[CHOOSE i \in 1..Len(x) :
                    /\ \A k \in 1..Len(x) : ~FLess(x[i], x[k])
                    /\ \A k \in 1..(i - 1) : FLess(x[k], x[i])])

\* amp(x): max(x) - min(x)
amp(x) ==
    LET hi == py_max(x)
        lo == py_min(x)
    IN  IF ~hi.ok \/ ~lo.ok \/ IsDict(hi.v) \/ IsDict(lo.v) THEN TypeError
        ELSE Value(FSub(hi.v, lo.v))

\* mean(x): sum(x) / len(x)
mean(x) ==
    LET total == py_sum(x)
    IN  IF ~total.ok THEN TypeError ELSE Value(FDivInt(total.v, Len(x)))

Groups == { "hourly", "daily" }
Functions == { "sum", "count", "min", "max", "amp", "mean" }

func(function, x) ==
    IF function = "sum" THEN py_sum(x)
    ELSE IF function = "count" THEN Value(Len(x))
    ELSE IF function = "min" THEN py_min(x)
    ELSE IF function = "max" THEN py_max(x)
    ELSE IF function = "amp" THEN amp(x)
    ELSE mean(x)

\* outcome of iterating an aggregation: the points it yielded and the
\* exception that ended it, if any
Yielded(o, e) == [out |-> o, exc |-> e]

\* the loop "for g in it()" with the representative timestamp of a bucket
\* taken from its first point instead of the left boundary
RECURSIVE Aggregate_FirstTs(_, _, _, _)
Aggregate_FirstTs(groups, group, function, n) ==
    IF n > Len(groups) THEN Yielded(<<>>, "")
    ELSE LET t == groups[n]
             ts == t[1].ts
             offset == t[1].dt.offset
             dt == from_timestamp(ts, offset)
             value == func(function, [i \in 1..Len(t) |-> t[i].value])
         IN  IF ~value.ok THEN Yielded(<<>>, "TypeError")
             ELSE LET rest == Aggregate_FirstTs(groups, group, function, n + 1)
                  IN  Yielded(<<Point(ts, value.v, dt)>> \o rest.out, rest.exc)

\* the loop "for g in it()" of aggregation, from bucket n on
RECURSIVE Aggregate(_, _, _, _)
Aggregate(groups, group, function, n) ==
    IF n > Len(groups) THEN Yielded(<<>>, "")
    ELSE LET t == groups[n]
             ts == IF group = "hourly" THEN ts_hourly_left(t[1].ts)
                   ELSE ts_daily_left(t[1].ts)
             offset == t[1].dt.offset
             dt == from_timestamp(ts, offset)
             value == func(function, [i \in 1..Len(t) |-> t[i].value])
         IN  IF ~value.ok THEN Yielded(<<>>, "TypeError")
             ELSE LET rest == Aggregate(groups, group, function, n + 1)
                  IN  Yielded(<<Point(ts, value.v, dt)>> \o rest.out, rest.exc)

\* list(series.aggregation(group, function))
aggregation(s, group, function) ==
    IF group \notin Groups THEN Yielded(<<>>, "ValueError")
    ELSE IF function \notin Functions THEN Yielded(<<>>, "ValueError")
    ELSE Aggregate(IF group = "hourly" THEN hourly(s) ELSE daily(s), group, function, 1)

-----------------------------------------------------------------------------
\* TimeSeries.to_hash

\* "{}".format(n) for an integer n: a minus sign before the digits of n < 0
FormatSigned(n) == IF n < 0 THEN <<45>> \o FormatInt(0 - n) ELSE FormatInt(n)

\* TimeSeries.ts_min and TimeSeries.ts_max: -1 for an empty series
ts_min(s) == IF Len(s.timestamps) > 0 THEN s.timestamps[1] ELSE 0 - 1
ts_max(s) == IF Len(s.timestamps) > 0 THEN s.timestamps[Len(s.timestamps)] ELSE 0 - 1

\* TimeSeries.to_hash(): the SHA-1 of "{key}.{metric}.{len}.{ts_min}.{ts_max}",
\* held as the five parts of the text that is hashed
to_hash(s) ==
    <<s.key, s.metric, FormatInt(Len(s.timestamps)), FormatSigned(ts_min(s)),
      FormatSigned(ts_max(s))>>

-----------------------------------------------------------------------------
\* TimeSeries.append_timeseries

\* self.append_timeseries(other) for a Float series self and a TimeSeries
\* other of series type other_type
append_timeseries(s, other, other_type) ==
    IF ~EqualLen(other) \/ (SLen(other) > 0 /\ ~check_sorted(other))
    THEN Raised(s, "AssertionError")
    ELSE IF SLen(other) < 1 THEN Returned(s, NoRet)
    ELSE IF ~(ts_max(s) < ts_min(other)) THEN Raised(s, "AssertionError")
    ELSE IF s.key # other.key THEN Raised(s, "AssertionError")
    ELSE IF s.metric # other.metric THEN Raised(s, "AssertionError")
    ELSE IF FLOATSERIES # other_type THEN Raised(s, "AssertionError")
    ELSE Returned([s EXCEPT !.timestamps = @ \o other.timestamps,
                            !.offsets = @ \o other.offsets,
                            !.values = @ \o other.values], NoRet)

-----------------------------------------------------------------------------
\* CDBClient (directclient/__init__.py)

\* create_client without the STAGING test
create_client_IgnoreStaging(config) ==
    [read_only |-> config.READ_ONLY, config |-> config]

\* create_client(config): the CDBClient and its Connection are read-only
\* when READ_ONLY or STAGING is set; the configuration is kept beside the
\* client's read_only field
create_client(config) ==
    LET read_only_ == IF config.STAGING THEN TRUE ELSE config.READ_ONLY
    IN  [read_only |-> read_only_, config |-> config]

\* outcome of a client call: whether a store method was called, the table
\* the store works on, and the store's outcome r
ClientResult(reached, table, r) == [reached |-> reached, table |-> table, r |-> r]

\* CDBClient.raise_on_read_only() raising, before any store is called
NotPossible ==
    ClientResult(FALSE, "none",
                 StoreResult({}, NoRet, <<>>, "RuntimeError: not possible in read only mode"))

\* TimeSeries(key, metric, values = data)
TimeSeries(key, metric, data) == InsertAll(NewSeries(key, metric), data, 1)

\* CDBClient.put_timeseries(key, metric, data)
put_timeseries(cl, tbl, key, metric, data) ==
    IF cl.read_only THEN NotPossible
    ELSE ClientResult(TRUE, "timeseries",
                      insert_timeseries(tbl, cl.read_only, TimeSeries(key, metric, data)))

\* the loop of put_timeseries_multi, from item n on: the results so far are
\* lost when an insert raises, the cells written so far stay
RECURSIVE PutMulti(_, _, _, _, _)
PutMulti(cl, tbl, data, res, n) ==
    IF n > Len(data) THEN StoreResult(tbl, NoRet, res, "")
    ELSE LET ts == TimeSeries(data[n].key, data[n].metric, data[n].data)
             r == insert_timeseries(tbl, cl.read_only, ts)
         IN  IF r.exc # "" THEN StoreResult(r.cells, NoRet, <<>>, r.exc)
             ELSE PutMulti(cl, r.cells, data, Append(res, r.ret), n + 1)

\* CDBClient.put_timeseries_multi(data)
put_timeseries_multi(cl, tbl, data) ==
    IF cl.read_only THEN NotPossible
    ELSE ClientResult(Len(data) > 0, "timeseries", PutMulti(cl, tbl, data, <<>>, 1))

\* CDBClient.delete_timeseries(key, metrics, from_datetime, to_datetime),
\* the datetimes given as integer timestamps
CDBClient_delete_timeseries(cl, tbl, key, metrics, from_datetime, to_datetime) ==
    IF cl.read_only THEN NotPossible
    ELSE ClientResult(TRUE, "timeseries",
                      delete_timeseries(tbl, cl.read_only, key, metrics,
                                        from_datetime, to_datetime))

\* CDBClient.put_events(key, name, events)
put_events(cl, tbl, key, name, evs) ==
    IF cl.read_only THEN NotPossible
    ELSE ClientResult(TRUE, "events",
                      insert_events(tbl, cl.read_only, EventList(key, name, evs)))

\* CDBClient.delete_events(key, name, from_datetime, to_datetime): the
\* EventStore has no method delete_event_days
delete_events(cl, tbl, key, name, from_datetime, to_datetime) ==
    IF cl.read_only THEN NotPossible
    ELSE ClientResult(TRUE, "events", StoreResult(tbl, NoRet, <<>>, "AttributeError"))

\* CDBClient.put_metadata(object_name, object_key, namespace, data), data
\* being a dict or not: the MetaDataStore has no method put_metadata_items
put_metadata(cl, is_dict) ==
    IF cl.read_only THEN NotPossible
    ELSE IF ~is_dict
    THEN ClientResult(FALSE, "none", StoreResult({}, NoRet, <<>>, "ValueError"))
    ELSE ClientResult(TRUE, "none", StoreResult({}, NoRet, <<>>, "AttributeError"))

\* CDBClient.incr_activity(reader_id, device_id, timestamp, parent_ids, value)
CDBClient_incr_activity(cl, tbl, reader_id, device_id, timestamp, parent_ids, value) ==
    IF cl.read_only THEN NotPossible
    ELSE ClientResult(TRUE, "activity",
                      incr_activity(tbl, cl.read_only, reader_id, device_id, timestamp,
                                    parent_ids, value))

-----------------------------------------------------------------------------
\* Mutator machine: Connections opened writable or read-only over one
\* backend, and the mutators of the three stores

\* reader, device and parent ids "r01", "r1", "d1", "d:1", "p01", "p02", ...
R01 == <<114, 48, 49>>
R1 == <<114, 49>>
D1 == <<100, 49>>
DColon1 == <<100, Colon, 49>>
ParentId(i) == <<112, 48, Digit0 + i>>
\* event name "ev"
EvName == <<101, 118>>

\* the series offered to insert_timeseries: two valid ones and an empty one
MutatorSeries ==
    { RunSeries(K1, "ph", 0, 0), RunSeries(K1, "temp", 1, 1), NewSeries(K1, "ph") }

\* the (metrics, from_ts, to_ts) offered to delete_timeseries: a deletable
\* metric, one that is not, and a range with from_ts > to_ts
MutatorDeletes ==
    { <<<<"ph">>, TsOf(0), TsOf(0)>>, <<<<"temp">>, TsOf(0), TsOf(1)>>,
      <<<<"ph">>, TsOf(1), TsOf(0)>> }

\* the batch of n events one second apart, the i-th carrying the data i
Batch(n) == EventList(K1, EvName, [i \in 1..n |-> Event(TsBase + i, i)])

\* the batch sizes offered to insert_events, around both ends of the
\* accepted range
BatchSizes == (0..MaxEvents) \cup { MAX_BATCH - 1, MAX_BATCH, MAX_BATCH + 1 }

\* the (reader_id, device_id, parent_ids) offered to incr_activity in the
\* mutator machine: valid ones, a short reader id and an empty parent list
MutatorIncrs ==
    { <<R01, D1, None>>, <<R01, D1, Some(<<ParentId(1)>>)>>,
      <<R1, D1, None>>, <<R01, D1, Some(<<>>)>> }

MutatorOps == { "insert_timeseries", "delete_timeseries", "insert_events",
                "incr_activity" }

InitMutators ==
    /\ read_only = FALSE
    /\ series = NewSeries(K1, "ph")
    /\ pre = NewSeries(K1, "ph")
    /\ call = [op |-> "Connection", read_only |-> FALSE]
    /\ ret = NoRet
    /\ exc = ""
    /\ cells = {}
    /\ cellsPre = {}
    /\ out = <<>>
    /\ nIns = 0
    /\ stored = {}
    /\ OthersIdle

\* Connection(..., read_only = ro): a new Connection over the same backend
Connect ==
    \E ro \in BOOLEAN :
        /\ read_only' = ro
        /\ call' = [op |-> "Connection", read_only |-> ro]
        /\ ret' = NoRet
        /\ exc' = ""
        /\ out' = <<>>
        /\ UNCHANGED <<series, pre, cells, cellsPre, nIns, stored>>
        /\ UNCHANGED others

\* a call on the timeseries store
TimeseriesCall(c, r) ==
    /\ call' = c
    /\ cells' = r.cells
    /\ ret' = r.ret
    /\ out' = r.out
    /\ exc' = r.exc
    /\ UNCHANGED <<read_only, series, pre, cellsPre, nIns, stored>>
    /\ UNCHANGED others

CallInsertTimeseries ==
    \E ts \in MutatorSeries :
        TimeseriesCall([op |-> "insert_timeseries", n |-> SLen(ts), metric |-> ts.metric],
                       insert_timeseries(cells, read_only, ts))

CallDeleteTimeseries ==
    \E d \in MutatorDeletes :
        TimeseriesCall([op |-> "delete_timeseries", metrics |-> d[1],
                        from_ts |-> d[2], to_ts |-> d[3]],
                       delete_timeseries(cells, read_only, K1, d[1], d[2], d[3]))

InsertEvents ==
    \E n \in BatchSizes :
        LET r == insert_events(events, read_only, Batch(n))
        IN  /\ call' = [op |-> "insert_events", n |-> n]
            /\ events' = r.cells
            /\ ret' = r.ret
            /\ out' = r.out
            /\ exc' = r.exc
            /\ UNCHANGED <<read_only, series, pre, cells, cellsPre, nIns, stored>>
            /\ UNCHANGED <<activity, instances, threads, client>>

\* a call on the activity store; counters stay within MaxIncr
ActivityCall(c, r) ==
    /\ \A x \in r.cells : x.val <= MaxIncr
    /\ call' = c
    /\ activity' = r.cells
    /\ ret' = r.ret
    /\ out' = r.out
    /\ exc' = r.exc
    /\ UNCHANGED <<read_only, series, pre, cells, cellsPre, nIns, stored>>
    /\ UNCHANGED <<events, instances, threads, client>>

IncrActivity ==
    \E a \in MutatorIncrs :
        ActivityCall([op |-> "incr_activity", reader_id |-> a[1], device_id |-> a[2],
                      timestamp |-> TsOf(1), parent_ids |-> a[3], value |-> 1],
                     incr_activity(activity, read_only, a[1], a[2], TsOf(1), a[3], 1))

NextMutators ==
    Connect \/ CallInsertTimeseries \/ CallDeleteTimeseries \/ InsertEvents \/ IncrActivity

SpecMutators == InitMutators /\ [][NextMutators]_vars

-----------------------------------------------------------------------------
\* Properties of the container

StrictlyAscending(a) == \A i \in 1..Len(a) - 1 : a[i] < a[i + 1]

Contains(a, x) == \E i \in 1..Len(a) : a[i] = x

\* the points of a series whose arrays agree: (ts, offset, value) triples
Points(s) == [i \in 1..SLen(s) |-> <<s.timestamps[i], s.offsets[i], s.values[i]>>]

\* s and r agree everywhere except possibly at 1-based position k
SameExceptAt(s, r, k) ==
    /\ r.timestamps = s.timestamps
    /\ Len(r.offsets) = Len(s.offsets)
    /\ Len(r.values) = Len(s.values)
    /\ \A i \in 1..Len(s.offsets) : i # k => r.offsets[i] = s.offsets[i]
    /\ \A i \in 1..Len(s.values) : i # k => r.values[i] = s.values[i]

\* the last call either returned 0 and changed nothing, or (overwrite)
\* returned 1 and replaced offset and value at the position of the timestamp
MergedInPlace(offset, value) ==
    /\ SLen(series) = SLen(pre)
    /\ IF call.overwrite
       THEN /\ ret = 1
            /\ \E k \in 1..SLen(pre) :
                  /\ pre.timestamps[k] = call.timestamp
                  /\ SameExceptAt(pre, series, k)
                  /\ series.offsets[k] = offset
                  /\ series.values[k] = value
       ELSE /\ ret = 0
            /\ series = pre

\* C1 (as claimed): after any sequence of insert_point calls the timestamps
\* are strictly ascending and the three parallel arrays have equal length.
C1_SortedEqualLength ==
    /\ StrictlyAscending(series.timestamps)
    /\ EqualLen(series)

\* C2: an insert_point call that returns leaves the length unchanged when the
\* timestamp is already in the series (returning 0 and changing nothing with
\* overwrite = false, returning 1 and replacing value and offset in place with
\* overwrite = true), and returns 1 and grows the length by one otherwise.
C2_InsertPointResult ==
    (call.op = "insert_point" /\ exc = "") =>
        IF Contains(pre.timestamps, call.timestamp)
        THEN MergedInPlace(call.offset, call.value)
        ELSE ret = 1 /\ SLen(series) = SLen(pre) + 1

\* an overwrite of the middle point of a three-point series with a new value
C2_Witness ==
    /\ call.op = "insert_point" /\ exc = "" /\ call.overwrite
    /\ SLen(pre) = 3 /\ EqualLen(pre)
    /\ pre.timestamps[2] = call.timestamp
    /\ pre.values[2] # call.value
    /\ pre.offsets[2] # call.offset

\* C3 (as claimed): insert_storage_item on a timestamp already present in a
\* non-empty series merges in place as insert_point does: 0 and no change
\* without overwrite, value and offset replaced with overwrite, the length
\* unchanged and no timestamp twice afterwards.
C3_StorageItemMerge ==
    (/\ call.op = "insert_storage_item" /\ exc = ""
     /\ SLen(pre) > 0 /\ StrictlyAscending(pre.timestamps)
     /\ Contains(pre.timestamps, call.timestamp)) =>
        /\ MergedInPlace(UnpackI(call.by.off), call.by.val)
        /\ StrictlyAscending(series.timestamps)

\* C4: trim(a, b) on a series whose arrays agree keeps exactly the points with
\* a <= ts <= b, in order, with their offsets and values; a > b empties it.
C4_TrimRetains ==
    (call.op = "trim" /\ EqualLen(pre)) =>
        /\ EqualLen(series)
        /\ Points(series) = SelectSeq(Points(pre),
                LAMBDA p : call.ts_min <= p[1] /\ p[1] <= call.ts_max)
        /\ (call.ts_min > call.ts_max => SLen(series) = 0)

\* a trim whose two bounds are timestamps of the series, dropping a point
\* below and a point above them
C4_Witness ==
    /\ call.op = "trim" /\ EqualLen(pre) /\ SLen(pre) = 3
    /\ call.ts_min = pre.timestamps[2] /\ call.ts_max = pre.timestamps[2]
    /\ SLen(series) = 1

-----------------------------------------------------------------------------
\* Properties of the store

\* the UTC day number of a timestamp
DayOf(ts) == ts \div DaySecs

\* the accepted points of (key, metric) as (ts, offset, value) triples, the
\* value as the single-precision float closest to it
StoredPoints(key, metric) ==
    { <<p.ts, p.offset, RoundF32(p.value)>> :
        p \in { q \in stored : q.key = key /\ q.metric = metric } }

\* a set of triples with distinct timestamps, in ascending timestamp order
RECURSIVE Ascending(_)
Ascending(S) ==
    IF S = {} THEN <<>>
    ELSE LET m == CHOOSE x \in S : \A y \in S : x[1] <= y[1]
         IN  <<m>> \o Ascending(S \ {m})

\* the last n (or all) elements of an ascending sequence of set S
Newest(S, n) ==
    LET a == Ascending(S)
    IN  SubSeq(a, Len(a) - Min(n, Len(a)) + 1, Len(a))

\* the result is one well-formed series per requested metric, in request order
OneSeriesPerMetric ==
    /\ Len(out) = Len(call.metrics)
    /\ \A i \in 1..Len(out) :
        /\ out[i].key = call.key
        /\ out[i].metric = call.metrics[i]
        /\ EqualLen(out[i])

InRange(p) == call.from_ts <= p[1] /\ p[1] <= call.to_ts

\* C5: after any sequence of insert_timeseries calls, a get_timeseries that
\* returns gives one series per requested metric, in request order, and the
\* i-th series holds exactly the accepted points of (key, metrics[i]) with
\* from_ts <= ts <= to_ts, each once, in ascending timestamp order
C5_GetReturnsStoredRange ==
    (call.op = "get_timeseries" /\ exc = "") =>
        /\ OneSeriesPerMetric
        /\ \A i \in 1..Len(out) :
            Points(out[i]) =
                Ascending({ p \in StoredPoints(call.key, call.metrics[i]) : InRange(p) })

\* a get of two metrics that returns points of both, with an accepted point
\* of the first metric outside the range and points accepted for another key
\* or metric
C5_Witness ==
    /\ call.op = "get_timeseries" /\ exc = ""
    /\ Len(out) = 2
    /\ SLen(out[1]) >= 1 /\ SLen(out[2]) >= 1
    /\ \E p \in StoredPoints(call.key, call.metrics[1]) : ~InRange(p)

\* the days of the rows of key that hold a requested metric and are not
\* after the day of max_ts
RequestedDays ==
    { DayOf(q.ts) : q \in { p \in stored : /\ p.key = call.key
                                           /\ Contains(call.metrics, p.metric)
                                           /\ DayOf(p.ts) <= DayOf(call.max_ts) } }

\* the n latest days of a set of days
RECURSIVE LatestDays(_, _)
LatestDays(D, n) ==
    IF n = 0 \/ D = {} THEN {}
    ELSE LET m == CHOOSE x \in D : \A y \in D : y <= x
         IN  {m} \cup LatestDays(D \ {m}, n - 1)

\* the days of the first max_days rows of the scan
ScanWindow == LatestDays(RequestedDays, call.max_days)

\* the accepted points of (key, metric) in the rows of the scan window
Available(metric) ==
    LET window == ScanWindow
    IN  { p \in StoredPoints(call.key, metric) : DayOf(p[1]) \in window }

\* C6: a get_last_values that returns gives, for each requested metric in
\* request order, exactly the min(count, available) newest accepted points
\* of (key, metric) among the rows of the scan window, ascending
C6_LastValuesNewest ==
    (call.op = "get_last_values" /\ exc = "") =>
        /\ OneSeriesPerMetric
        /\ \A i \in 1..Len(out) :
            Points(out[i]) = Newest(Available(call.metrics[i]), call.count)

\* the same statement for the calls with count >= 1
LastValuesNewestForPositiveCount ==
    (call.op = "get_last_values" /\ exc = "" /\ call.count >= 1) =>
        /\ OneSeriesPerMetric
        /\ \A i \in 1..Len(out) :
            Points(out[i]) = Newest(Available(call.metrics[i]), call.count)

\* a call with count >= 1 whose newest row already holds count points of
\* every requested metric, with older rows in the window left unscanned
EarlyStopReached ==
    /\ call.op = "get_last_values" /\ exc = "" /\ call.count >= 1
    /\ LET top == LatestDays(RequestedDays, 1)
       IN  /\ \A i \in 1..Len(call.metrics) :
                Cardinality({ p \in Available(call.metrics[i]) : DayOf(p[1]) \in top })
                    >= call.count
           /\ \E i \in 1..Len(call.metrics) :
                \E p \in Available(call.metrics[i]) : DayOf(p[1]) \notin top

\* C7: get_last_values merges at most max_days rows: every returned point
\* lies in one of the first max_days rows of the scan, so a metric whose
\* points all lie beyond them comes back empty, while a metric with points
\* in those rows still returns its newest point (for count >= 1)
C7_LastValuesRowLimit ==
    (call.op = "get_last_values" /\ exc = "") =>
        LET window == ScanWindow
        IN  /\ Len(out) = Len(call.metrics)
            /\ \A i \in 1..Len(out) :
                LET available == Available(call.metrics[i])
                IN  /\ \A j \in 1..SLen(out[i]) : DayOf(out[i].timestamps[j]) \in window
                    /\ available = {} => SLen(out[i]) = 0
                    /\ (call.count >= 1 /\ available # {}) =>
                        /\ SLen(out[i]) >= 1
                        /\ \A p \in available : p[1] <= out[i].timestamps[SLen(out[i])]

\* a metric with accepted points on days not after max_ts, all of them
\* beyond the scanned rows, comes back empty next to a metric that does not
C7_Witness ==
    /\ call.op = "get_last_values" /\ exc = ""
    /\ \E i \in 1..Len(out) :
        /\ SLen(out[i]) = 0
        /\ \E p \in StoredPoints(call.key, call.metrics[i]) :
            DayOf(p[1]) <= DayOf(call.max_ts)
    /\ \E i \in 1..Len(out) : SLen(out[i]) >= 1

\* the column families of the requested metrics
RequestedFamilies ==
    { METRIC_NAME_LOOKUP[call.metrics[i]].id : i \in 1..Len(call.metrics) }

\* the cell lies in a row of the requested key, in a requested family, on a
\* day covered by [from_ts, to_ts]
Targeted(c) ==
    /\ StartsWith(c.row, call.key \o <<Hash>>)
    /\ c.fam \in RequestedFamilies
    /\ DayOf(call.from_ts) <= DayOf(ParseInt(c.q))
    /\ DayOf(ParseInt(c.q)) <= DayOf(call.to_ts)

\* C8: a delete_timeseries that returns removes every cell of the requested
\* families in the rows of key for the days covered by [from_ts, to_ts],
\* also those whose timestamp is outside [from_ts, to_ts], and leaves every
\* other cell unchanged; a call that raises leaves the table unchanged
C8_DeleteWholeDays ==
    call.op = "delete_timeseries" =>
        IF exc = "" THEN cells = { c \in cellsPre : ~Targeted(c) }
        ELSE cells = cellsPre

\* a delete that removed a cell whose timestamp is outside [from_ts, to_ts]
\* and left another cell in place
C8_Witness ==
    /\ call.op = "delete_timeseries" /\ exc = ""
    /\ \E c \in cellsPre \ cells :
        ~(call.from_ts <= ParseInt(c.q) /\ ParseInt(c.q) <= call.to_ts)
    /\ cells # {}

\* C9: a delete_timeseries that returns gives the number of UTC days covered
\* by [from_ts, to_ts] (1 when from_ts = to_ts), whether or not rows exist
\* for those days
C9_DeleteReturnsDays ==
    (call.op = "delete_timeseries" /\ exc = "") =>
        /\ ret = DayOf(call.to_ts) - DayOf(call.from_ts) + 1
        /\ call.from_ts = call.to_ts => ret = 1

\* a delete over several days of which fewer held a requested cell
C9_Witness ==
    /\ call.op = "delete_timeseries" /\ exc = ""
    /\ ret >= 2
    /\ Cardinality({ c.row : c \in cellsPre \ cells }) < ret
    /\ cells # cellsPre

\* some requested metric has delete_possible = false
DeleteRefused ==
    \E i \in 1..Len(call.metrics) : ~METRIC_NAME_LOOKUP[call.metrics[i]].delete_possible

\* C10 as stated: whenever a requested metric has delete_possible = false,
\* delete_timeseries fails with the delete-not-possible error and the table
\* is unchanged
C10_DeleteForbiddenAlways ==
    (call.op = "delete_timeseries" /\ DeleteRefused) =>
        /\ exc = "RuntimeError: delete not possible"
        /\ cells = cellsPre

\* C10: on a writable connection and for from_ts <= to_ts, a delete_timeseries
\* with a requested metric that has delete_possible = false fails with the
\* delete-not-possible error; whenever a requested metric has
\* delete_possible = false no cell is deleted, whatever the error
C10_DeleteForbidden ==
    (call.op = "delete_timeseries" /\ DeleteRefused) =>
        /\ cells = cellsPre
        /\ exc # ""
        /\ (~read_only /\ call.from_ts <= call.to_ts) =>
            exc = "RuntimeError: delete not possible"

\* a refused delete of a deletable metric listed before the protected one,
\* with cells of the deletable metric on the covered days
C10_Witness ==
    /\ call.op = "delete_timeseries" /\ DeleteRefused
    /\ exc = "RuntimeError: delete not possible"
    /\ METRIC_NAME_LOOKUP[call.metrics[1]].delete_possible
    /\ \E c \in cellsPre : Targeted(c) /\ c.fam = METRIC_NAME_LOOKUP[call.metrics[1]].id

-----------------------------------------------------------------------------
\* Table machine: one Connection, writable or read-only, and the calls made
\* on it and on the table handles it returns

\* columns "e:1" and "e:1:2" and one without a colon, "e1"
ColE1 == <<101, Colon, 49>>
ColE12 == <<101, Colon, 49, Colon, 50>>
ColNoColon == <<101, 49>>
\* counter column "c:00.d1"
ColCounter == <<99, Colon, 48, 48, Dot, 100, 49>>
\* the cell value b"7" written by write_cell
CellValues == { <<55>> }

\* the table written with byte values, and the counter table
ByteTables == { "events" }
TableNames == ByteTables \cup { "activity" }

WriteColumns == { ColE1, ColE12, ColNoColon }

\* the row_upserts lists offered: one row, and two rows of which the
\* second has a column without a colon
UpsertInputs ==
    { << [row_key |-> K1, cells |-> { [column |-> ColE1, value |-> <<55>>] }] >>,
      << [row_key |-> K2, cells |-> { [column |-> ColE1, value |-> <<56>>],
                                      [column |-> ColE12, value |-> <<55>>] }] >>,
      << [row_key |-> K1, cells |-> { [column |-> ColE12, value |-> <<56>>] }],
         [row_key |-> K2, cells |-> { [column |-> ColNoColon, value |-> <<55>>] }] >> }

\* column_families of delete_row: None or ["e"]
DeleteFamilies == { None, Some(<< <<101>> >>) }

TableOps == { "Connection.write_cell", "Table.write_cell", "Table.delete_row",
              "Table.upsert_rows", "Table.increment_counter" }

\* the cells of the table get_table(table_name) gives access to
TableCells(table_name) ==
    IF table_name = "events" THEN events ELSE activity

InitTable ==
    /\ read_only \in BOOLEAN
    /\ series = NewSeries(K1, "ph")
    /\ pre = NewSeries(K1, "ph")
    /\ call = [op |-> "Connection", read_only |-> read_only]
    /\ ret = NoRet
    /\ exc = ""
    /\ cells = {}
    /\ cellsPre = {}
    /\ out = <<>>
    /\ nIns = 0
    /\ stored = {}
    /\ OthersIdle

\* a call c on the handle get_table(table_name) returns: get_instance runs
\* first, then the handle's method with outcome r
TableCall(table_name, c, r) ==
    /\ \E g \in get_instance(instances) : instances' = g.instances
    /\ call' = c
    /\ events' = IF table_name = "events" THEN r.cells ELSE events
    /\ activity' = IF table_name = "activity" THEN r.cells ELSE activity
    /\ ret' = r.ret
    /\ out' = r.out
    /\ exc' = r.exc
    /\ UNCHANGED <<read_only, series, pre, cells, cellsPre, nIns, stored, threads, client>>

ConnectionWriteCell ==
    \E t \in ByteTables, row \in { K1 }, col \in WriteColumns, v \in CellValues :
        TableCall(t, [op |-> "Connection.write_cell", table |-> t],
                  Connection_write_cell(TableCells(t), row, col, v))

TableWriteCell ==
    \E t \in ByteTables, row \in { K2 }, col \in WriteColumns, v \in CellValues :
        TableCall(t, [op |-> "Table.write_cell", table |-> t],
                  Table_write_cell(TableCells(t), row, col, v))

TableDeleteRow ==
    \E t \in TableNames, row \in { K1, K2 }, f \in DeleteFamilies :
        TableCall(t, [op |-> "Table.delete_row", table |-> t],
                  Table_delete_row(TableCells(t), row, f))

TableUpsertRows ==
    \E t \in ByteTables, u \in UpsertInputs :
        TableCall(t, [op |-> "Table.upsert_rows", table |-> t],
                  Table_upsert_rows(TableCells(t), u))

TableIncrementCounter ==
    \E col \in { ColCounter, ColE12 } :
        LET r == Table_increment_counter(activity, K1, col, 1)
        IN  /\ \A x \in r.cells : x.val <= MaxIncr
            /\ TableCall("activity", [op |-> "Table.increment_counter",
                                      table |-> "activity"], r)

NextTable ==
    \/ ConnectionWriteCell
    \/ TableWriteCell
    \/ TableDeleteRow
    \/ TableUpsertRows
    \/ TableIncrementCounter

SpecTable == InitTable /\ [][NextTable]_vars

-----------------------------------------------------------------------------
\* Client machine: clients built by create_client over one backend, and the
\* mutating calls made on them

Configs == [READ_ONLY : BOOLEAN, STAGING : BOOLEAN]

\* the data lists of put_timeseries: one point of a metric
ClientData(metric, i) ==
    << <<TsOf(i), PayloadOf(K1, metric)[1], PayloadOf(K1, metric)[2]>> >>

\* the item lists of put_timeseries_multi: two items, and two of which the
\* second names an unknown metric
MultiInputs ==
    { << [key |-> K1, metric |-> "ph", data |-> ClientData("ph", 0)],
         [key |-> K1, metric |-> "act", data |-> ClientData("act", 1)] >>,
      << [key |-> K1, metric |-> "temp", data |-> ClientData("temp", 0)],
         [key |-> K1, metric |-> "xx", data |-> ClientData("xx", 1)] >> }

ClientMutators == { "put_timeseries", "put_timeseries_multi", "delete_timeseries",
                    "put_events", "delete_events", "put_metadata", "incr_activity" }

InitClient ==
    /\ \E config \in Configs :
        /\ client = create_client(config)
        /\ read_only = create_client(config).read_only
        /\ call = [op |-> "create_client", reached |-> FALSE]
    /\ series = NewSeries(K1, "ph")
    /\ pre = NewSeries(K1, "ph")
    /\ ret = NoRet
    /\ exc = ""
    /\ cells = {}
    /\ cellsPre = {}
    /\ out = <<>>
    /\ nIns = 0
    /\ stored = {}
    /\ events = {}
    /\ activity = {}
    /\ instances = <<>>
    /\ threads = <<>>

\* create_client(config): a new client and Connection over the same backend
CreateClient ==
    \E config \in Configs :
        /\ client' = create_client(config)
        /\ read_only' = create_client(config).read_only
        /\ call' = [op |-> "create_client", reached |-> FALSE]
        /\ ret' = NoRet
        /\ exc' = ""
        /\ out' = <<>>
        /\ UNCHANGED <<series, pre, cells, cellsPre, nIns, stored,
                       events, activity, instances, threads>>

\* the client call op with outcome c
ClientCall(op, c) ==
    /\ c.table = "activity" => \A x \in c.r.cells : x.val <= MaxIncr
    /\ call' = [op |-> op, reached |-> c.reached]
    /\ cells' = IF c.table = "timeseries" THEN c.r.cells ELSE cells
    /\ events' = IF c.table = "events" THEN c.r.cells ELSE events
    /\ activity' = IF c.table = "activity" THEN c.r.cells ELSE activity
    /\ ret' = c.r.ret
    /\ out' = c.r.out
    /\ exc' = c.r.exc
    /\ UNCHANGED <<read_only, series, pre, cellsPre, nIns, stored,
                   instances, threads, client>>

ClientPutTimeseries ==
    \E metric \in { "ph", "xx" } :
        ClientCall("put_timeseries",
                   put_timeseries(client, cells, K1, metric, ClientData(metric, 0)))

ClientPutTimeseriesMulti ==
    \E data \in MultiInputs :
        ClientCall("put_timeseries_multi", put_timeseries_multi(client, cells, data))

ClientDeleteTimeseries ==
    \E d \in MutatorDeletes :
        ClientCall("delete_timeseries",
                   CDBClient_delete_timeseries(client, cells, K1, d[1], d[2], d[3]))

ClientPutEvents ==
    \E n \in 0..MaxEvents :
        ClientCall("put_events",
                   put_events(client, events, K1, EvName, Batch(n).events))

ClientDeleteEvents ==
    ClientCall("delete_events",
               delete_events(client, events, K1, EvName, TsOf(0), TsOf(1)))

ClientPutMetadata ==
    \E is_dict \in BOOLEAN :
        ClientCall("put_metadata", put_metadata(client, is_dict))

ClientIncrActivity ==
    \E a \in MutatorIncrs :
        ClientCall("incr_activity",
                   CDBClient_incr_activity(client, activity, a[1], a[2], TsOf(1), a[3], 1))

NextClient ==
    \/ CreateClient
    \/ ClientPutTimeseries
    \/ ClientPutTimeseriesMulti
    \/ ClientDeleteTimeseries
    \/ ClientPutEvents
    \/ ClientDeleteEvents
    \/ ClientPutMetadata
    \/ ClientIncrActivity

SpecClient == InitClient /\ [][NextClient]_vars

-----------------------------------------------------------------------------
\* Activity machine: incr_activity called again and again with the same
\* arguments on a writable Connection, starting from absent counters

ParentIds == { ParentId(i) : i \in 1..2 }

\* the parent lists of 1..MaxParents ids, repeated ids included
ParentLists ==
    UNION { [1..n -> ParentIds] : n \in 1..MaxParents }

\* the device ids "d1" and "d:1"
DeviceIds == { D1, DColon1 }

\* the timestamps: hour 00 and hour 18 of one day
ActivityTs == { TsOf(0), TsOf(1) }

InitActivity ==
    /\ \E device_id \in DeviceIds, timestamp \in ActivityTs, parent_ids \in ParentLists :
        call = [op |-> "init", reader_id |-> R01, device_id |-> device_id,
                timestamp |-> timestamp, parent_ids |-> Some(parent_ids),
                value |-> 1, k |-> 0]
    /\ read_only = FALSE
    /\ series = NewSeries(K1, "ph")
    /\ pre = NewSeries(K1, "ph")
    /\ ret = NoRet
    /\ exc = ""
    /\ cells = {}
    /\ cellsPre = {}
    /\ out = <<>>
    /\ nIns = 0
    /\ stored = {}
    /\ OthersIdle

\* one more call with the arguments of the behaviour; k counts the calls
RepeatIncrActivity ==
    /\ call.k < MaxCalls
    /\ LET r == incr_activity(activity, read_only, call.reader_id, call.device_id,
                              call.timestamp, call.parent_ids, call.value)
       IN  /\ activity' = r.cells
           /\ ret' = r.ret
           /\ out' = r.out
           /\ exc' = r.exc
    /\ call' = [call EXCEPT !.op = "incr_activity", !.k = @ + 1]
    /\ UNCHANGED <<read_only, series, pre, cells, cellsPre, nIns, stored>>
    /\ UNCHANGED <<events, instances, threads, client>>

NextActivity == RepeatIncrActivity

SpecActivity == InitActivity /\ [][NextActivity]_vars

-----------------------------------------------------------------------------
\* Concurrent activity machine: MaxThreads threads, each running one
\* incr_activity call on a writable Connection; the calls interleave
\* between their counter increments, each of which is one atomic
\* read-modify-write of the backend

\* the (parent_ids, value) of the concurrent calls
ConcurrentArgs ==
    { <<None, 1>>, <<Some(<<ParentId(1)>>), 1>>, <<Some(<<ParentId(1)>>), 2>>,
      <<Some(<<ParentId(1), ParentId(2)>>), 1>> }

Threads == 1..MaxThreads

InitConcurrent ==
    /\ threads \in [Threads -> { [pc |-> "start", parent_ids |-> a[1], value |-> a[2],
                                  row_keys |-> <<>>, res |-> <<>>]
                                 : a \in ConcurrentArgs }]
    /\ read_only = FALSE
    /\ series = NewSeries(K1, "ph")
    /\ pre = NewSeries(K1, "ph")
    /\ call = [op |-> "init"]
    /\ ret = NoRet
    /\ exc = ""
    /\ cells = {}
    /\ cellsPre = {}
    /\ out = <<>>
    /\ nIns = 0
    /\ stored = {}
    /\ events = {}
    /\ activity = {}
    /\ instances = <<>>
    /\ client = [read_only |-> FALSE, config |-> [READ_ONLY |-> FALSE, STAGING |-> FALSE]]

\* the column of the concurrent calls: device "d1" at the hour of TsOf(1)
ConcurrentColumn == <<99, Colon>> \o get_hour_key(TsOf(1)) \o <<Dot>> \o D1

\* thread t enters incr_activity: the read-only test and get_insert_keys
BeginIncr(t) ==
    /\ threads[t].pc = "start"
    /\ ~read_only
    /\ LET keys == get_insert_keys(R01, TsOf(1), threads[t].parent_ids)
       IN  threads' = [threads EXCEPT ![t].pc = IF keys.ok THEN "incr" ELSE "done",
                                      ![t].row_keys = keys.row_keys]
    /\ call' = [op |-> "incr_activity", thread |-> t]
    /\ UNCHANGED <<read_only, series, pre, ret, exc, cells, cellsPre, out, nIns, stored,
                   events, activity, instances, client>>

\* thread t runs the next counter_inc of its loop "for r in row_keys"
CounterInc(t) ==
    /\ threads[t].pc = "incr"
    /\ LET n == Len(threads[t].res) + 1
           r == counter_inc(activity, threads[t].row_keys[n], ConcurrentColumn,
                            threads[t].value)
       IN  /\ activity' = r.tbl
           /\ threads' = [threads EXCEPT
                            ![t].res = Append(@, r.ret),
                            ![t].pc = IF n = Len(threads[t].row_keys) THEN "done"
                                      ELSE "incr"]
    /\ call' = [op |-> "counter_inc", thread |-> t]
    /\ UNCHANGED <<read_only, series, pre, ret, exc, cells, cellsPre, out, nIns, stored,
                   events, instances, client>>

NextConcurrent == \E t \in Threads : BeginIncr(t) \/ CounterInc(t)

SpecConcurrent == InitConcurrent /\ [][NextConcurrent]_vars

-----------------------------------------------------------------------------
\* Pool machine: MaxCallers threads calling Connection.get_instance again
\* and again; a thread can be preempted between the test of the pool's
\* length, create_instance and the append

Callers == 1..MaxCallers

\* the instances created so far: the pooled ones and those a thread holds
\* between create_instance and the append
Created ==
    { instances[i] : i \in 1..Len(instances) }
    \cup { threads[t].con : t \in { u \in Callers : threads[u].pc = "append" } }

InitPool ==
    /\ threads = [t \in Callers |-> [pc |-> "idle", con |-> 0]]
    /\ instances = <<>>
    /\ read_only = FALSE
    /\ series = NewSeries(K1, "ph")
    /\ pre = NewSeries(K1, "ph")
    /\ call = [op |-> "init"]
    /\ ret = NoRet
    /\ exc = ""
    /\ cells = {}
    /\ cellsPre = {}
    /\ out = <<>>
    /\ nIns = 0
    /\ stored = {}
    /\ events = {}
    /\ activity = {}
    /\ client = [read_only |-> FALSE, config |-> [READ_ONLY |-> FALSE, STAGING |-> FALSE]]

PoolStep(t, op, r) ==
    /\ call' = [op |-> op, thread |-> t]
    /\ ret' = r
    /\ UNCHANGED <<read_only, series, pre, exc, cells, cellsPre, out, nIns, stored,
                   events, activity, client>>

\* "if len(self.instances) < self.pool_size" found true by thread t
CheckPoolGrow(t) ==
    /\ threads[t].pc = "idle"
    /\ Len(instances) < PoolSize
    /\ threads' = [threads EXCEPT ![t].pc = "create"]
    /\ UNCHANGED instances
    /\ PoolStep(t, "check", NoRet)

\* the test found false: "return random.choice(self.instances)"
ChooseInstance(t) ==
    /\ threads[t].pc = "idle"
    /\ ~(Len(instances) < PoolSize)
    /\ \E i \in 1..Len(instances) : PoolStep(t, "choice", instances[i])
    /\ UNCHANGED <<threads, instances>>

\* "con = self.create_instance(admin=False)": the next new instance
CreateInstance(t) ==
    /\ threads[t].pc = "create"
    /\ threads' = [threads EXCEPT ![t].pc = "append", ![t].con = Cardinality(Created) + 1]
    /\ UNCHANGED instances
    /\ PoolStep(t, "create_instance", NoRet)

\* "self.instances.append(con); return con"
AppendInstance(t) ==
    /\ threads[t].pc = "append"
    /\ instances' = Append(instances, threads[t].con)
    /\ threads' = [threads EXCEPT ![t].pc = "idle", ![t].con = 0]
    /\ PoolStep(t, "append", threads[t].con)

NextPool ==
    \E t \in Callers :
        CheckPoolGrow(t) \/ ChooseInstance(t) \/ CreateInstance(t) \/ AppendInstance(t)

SpecPool == InitPool /\ [][NextPool]_vars

-----------------------------------------------------------------------------
\* Range machine: a writable Connection, one insert per store, and the
\* range-bounded reads of the three stores

\* the spans offered to a read whose maximum is max: none, a day, and the
\* three around the maximum
Spans(max) == { 0, DaySecs, max - 1, max, max + 1 }

\* the (from_ts, to_ts) offered: from_ts at TsOf(0) with every span, and one
\* range with from_ts > to_ts
RangesOf(max) == { <<TsOf(0), TsOf(0) + s>> : s \in Spans(max) } \cup { <<TsOf(1), TsOf(0)>> }

RangeReads == { "get_timeseries", "get_events", "get_activity_for_reader" }

\* the maximum span of a read
MaxSpan(op) ==
    IF op = "get_timeseries" THEN MAX_GET_SIZE
    ELSE IF op = "get_events" THEN EventStore_MAX_GET_SIZE
    ELSE ActivityStore_MAX_GET_SIZE

RangeFillTimeseries ==
    TimeseriesCall([op |-> "insert_timeseries", n |-> 1, metric |-> "ph"],
                   insert_timeseries(cells, read_only, RunSeries(K1, "ph", 0, 0)))

RangeFillEvents ==
    LET r == insert_events(events, read_only, Batch(MaxEvents))
    IN  /\ call' = [op |-> "insert_events", n |-> MaxEvents]
        /\ events' = r.cells
        /\ ret' = r.ret
        /\ out' = r.out
        /\ exc' = r.exc
        /\ UNCHANGED <<read_only, series, pre, cells, cellsPre, nIns, stored>>
        /\ UNCHANGED <<activity, instances, threads, client>>

RangeFillActivity ==
    ActivityCall([op |-> "incr_activity", reader_id |-> R01, device_id |-> D1,
                  timestamp |-> TsOf(1), parent_ids |-> None, value |-> 1],
                 incr_activity(activity, read_only, R01, D1, TsOf(1), None, 1))

\* a read with outcome r: the tables stay as they are
RangeRead(c, r) ==
    /\ call' = c
    /\ ret' = r.ret
    /\ out' = r.out
    /\ exc' = r.exc
    /\ UNCHANGED <<read_only, series, pre, cells, cellsPre, nIns, stored>>
    /\ UNCHANGED others

RangeGetTimeseries ==
    \E r \in RangesOf(MAX_GET_SIZE) :
        RangeRead([op |-> "get_timeseries", from_ts |-> r[1], to_ts |-> r[2]],
                  get_timeseries(cells, K1, <<"ph">>, r[1], r[2]))

RangeGetEvents ==
    \E r \in RangesOf(EventStore_MAX_GET_SIZE) :
        RangeRead([op |-> "get_events", from_ts |-> r[1], to_ts |-> r[2]],
                  get_events(events, K1, EvName, r[1], r[2]))

RangeGetActivityForReader ==
    \E r \in RangesOf(ActivityStore_MAX_GET_SIZE) :
        RangeRead([op |-> "get_activity_for_reader", from_ts |-> r[1], to_ts |-> r[2]],
                  get_activity_for_reader(activity, R01, r[1], r[2]))

NextRange ==
    \/ RangeFillTimeseries
    \/ RangeFillEvents
    \/ RangeFillActivity
    \/ RangeGetTimeseries
    \/ RangeGetEvents
    \/ RangeGetActivityForReader

SpecRange == InitMutators /\ [][NextRange]_vars

-----------------------------------------------------------------------------
\* Key machine: reverse_day_key applied to two days

\* the timestamps offered: one every 29 days from 1970-01-01 01:00 on, and
\* the days 2023-06-15 and 2024-01-02
KeyTs ==
    { k * 29 * DaySecs + 3600 : k \in 0..MaxKeyDays } \cup { 1686787200, 1704153600 }

\* the calendar dates offered: those of the timestamps, and dates up to the
\* year 4999, which lie beyond the 32-bit timestamps
KeyDates ==
    { [tm_year |-> gmtime(ts).tm_year, tm_mon |-> gmtime(ts).tm_mon,
       tm_mday |-> gmtime(ts).tm_mday] : ts \in KeyTs }
    \cup { [tm_year |-> 2038, tm_mon |-> 12, tm_mday |-> 31],
           [tm_year |-> 4998, tm_mon |-> 12, tm_mday |-> 31],
           [tm_year |-> 4999, tm_mon |-> 1, tm_mday |-> 1],
           [tm_year |-> 4999, tm_mon |-> 12, tm_mday |-> 31] }

InitKeys ==
    /\ call = [op |-> "init"]
    /\ out = <<>>
    /\ read_only = FALSE
    /\ series = NewSeries(K1, "ph")
    /\ pre = NewSeries(K1, "ph")
    /\ ret = NoRet
    /\ exc = ""
    /\ cells = {}
    /\ cellsPre = {}
    /\ nIns = 0
    /\ stored = {}
    /\ OthersIdle

\* reverse_day_key of two days, and the row keys of entity k1 for them
ReverseDayKey ==
    \E d1 \in KeyDates, d2 \in KeyDates :
        /\ call' = [op |-> "reverse_day_key", d1 |-> d1, d2 |-> d2]
        /\ out' = << reverse_day_key_of(d1), reverse_day_key_of(d2),
                     K1 \o <<Hash>> \o reverse_day_key_of(d1),
                     K1 \o <<Hash>> \o reverse_day_key_of(d2) >>
        /\ UNCHANGED <<read_only, series, pre, ret, exc, cells, cellsPre, nIns, stored>>
        /\ UNCHANGED others

NextKeys == ReverseDayKey

SpecKeys == InitKeys /\ [][NextKeys]_vars

-----------------------------------------------------------------------------
\* Round-trip machine: the points of a series S are encoded by the cell
\* codec and inserted into a fresh series, one by one, in any order

\* the payloads of the points of S: those of InputPoints that fit
RoundTripPayloads == { p \in InputPoints : FitsI32(p[1]) }

\* the series S: for every set of up to MaxRound timestamps and every choice
\* of payloads, the series TimeSeries(key, metric, values) builds
RoundTripSeries ==
    UNION { { LET order == Items(T)
              IN  TimeSeries(K1, "ph",
                             [i \in 1..Len(order) |-> <<order[i], f[order[i]][1],
                                                        f[order[i]][2]>>])
              : f \in [T -> RoundTripPayloads] }
            : T \in { U \in SUBSET SeriesTs : Cardinality(U) <= MaxRound } }

\* call.S is the series S, call.order the indices of its points in the
\* order they were inserted into the fresh series
InitRoundTrip ==
    /\ \E S \in RoundTripSeries : call = [op |-> "init", S |-> S, order |-> <<>>]
    /\ series = NewSeries(K1, "ph")
    /\ pre = NewSeries(K1, "ph")
    /\ ret = NoRet
    /\ exc = ""
    /\ StoreIdle

\* the next point of S, any of those not inserted yet, goes through
\* _storage_item_at and insert_storage_item
InsertEncodedItem ==
    \E i \in 0..(SLen(call.S) - 1), overwrite \in BOOLEAN :
        /\ \A n \in 1..Len(call.order) : call.order[n] # i
        /\ LET item == storage_item_at(call.S, i)
               r == insert_storage_item(series, item.ts, item.by, overwrite)
           IN  /\ series' = r.s
               /\ ret' = r.ret
               /\ exc' = r.exc
        /\ pre' = series
        /\ call' = [call EXCEPT !.op = "insert_storage_item", !.order = Append(@, i)]
        /\ UNCHANGED <<read_only, cells, cellsPre, out, nIns, stored>>
        /\ UNCHANGED others

NextRoundTrip == InsertEncodedItem

SpecRoundTrip == InitRoundTrip /\ [][NextRoundTrip]_vars

-----------------------------------------------------------------------------
\* Concurrent insert machine: MaxThreads threads, each running one
\* insert_timeseries call for key "k1" and metric "ph" on a writable
\* Connection; the calls interleave between their row mutations, each of
\* which the backend applies atomically

\* the timestamp sets of the inserted series: TsOf(0) and TsOf(1) share a
\* day-row, TsOf(2) lies on the next day
InsertTsSets == (SUBSET { TsOf(0), TsOf(1), TsOf(2) }) \ {{}}

\* the series thread t inserts: offset 0 and value t at every timestamp of T
ThreadSeries(t, T) ==
    LET order == Items(T)
    IN  TimeSeries(K1, "ph", [i \in 1..Len(order) |-> <<order[i], 0, t>>])

InitInserts ==
    /\ \E f \in [Threads -> InsertTsSets] :
        threads = [t \in Threads |-> [pc |-> "start", ts |-> ThreadSeries(t, f[t]),
                                      buckets |-> <<>>, n |-> 0, ret |-> NoRet]]
    /\ read_only = FALSE
    /\ series = NewSeries(K1, "ph")
    /\ pre = NewSeries(K1, "ph")
    /\ call = [op |-> "init"]
    /\ ret = NoRet
    /\ exc = ""
    /\ cells = {}
    /\ cellsPre = {}
    /\ out = <<>>
    /\ nIns = 0
    /\ stored = {}
    /\ events = {}
    /\ activity = {}
    /\ instances = <<>>
    /\ client = [read_only |-> FALSE, config |-> [READ_ONLY |-> FALSE, STAGING |-> FALSE]]

\* thread t enters insert_timeseries: the read-only test, assert bool(ts),
\* get_metric_object, and the buckets daily_storage_buckets will yield
BeginInsert(t) ==
    /\ threads[t].pc = "start"
    /\ ~read_only
    /\ SeriesBool(threads[t].ts)
    /\ threads[t].ts.metric \in METRIC_NAMES
    /\ threads' = [threads EXCEPT ![t].pc = "put",
                                  ![t].buckets = daily_storage_buckets(threads[t].ts),
                                  ![t].n = 1]
    /\ call' = [op |-> "insert_timeseries", thread |-> t]
    /\ UNCHANGED <<read_only, series, pre, ret, exc, cells, cellsPre, out, nIns, stored,
                   events, activity, instances, client>>

\* thread t runs one pass of "for day, bucket in ...": the row mutation of
\* its next bucket; after the last one the call returns len(ts)
PutRow(t) ==
    /\ threads[t].pc = "put"
    /\ LET n == threads[t].n
           last == n = Len(threads[t].buckets)
       IN  /\ cells' = PutBuckets(cells, threads[t].ts.key,
                                  get_metric_object(threads[t].ts.metric),
                                  SubSeq(threads[t].buckets, n, n), 1)
           /\ threads' = [threads EXCEPT ![t].n = n + 1,
                                         ![t].pc = IF last THEN "done" ELSE "put",
                                         ![t].ret = IF last THEN SLen(threads[t].ts)
                                                    ELSE NoRet]
           /\ call' = [op |-> "put", thread |-> t, n |-> n]
    /\ cellsPre' = cells
    /\ UNCHANGED <<read_only, series, pre, ret, exc, out, nIns, stored,
                   events, activity, instances, client>>

NextInserts == \E t \in Threads : BeginInsert(t) \/ PutRow(t)

SpecInserts == InitInserts /\ [][NextInserts]_vars

-----------------------------------------------------------------------------
\* Aggregation machine: a series and the aggregations iterated over it

\* 1 / 10, the float 0.1
Tenth == FDivInt(FromInt(1), 10)

\* three timestamps in one hour, one later that day, one on the next day
AggTs == <<TsBase, TsBase + 600, TsBase + 1200, TsOf(1), TsOf(2)>>

\* the (offset, value) of a point of a Float series, and of a Dict series
AggPayloads == { <<0, Tenth>>, <<0 - 1800, Tenth>>, <<0, FromInt(3)>> }
DictPayloads == { <<0, [dict |-> 1]>>, <<0 - 1800, [dict |-> 2]>> }

\* the points a choice f makes: none at AggTs[i] if f[i] = <<>>
ChosenPoints(f) ==
    LET present == Items({ i \in DOMAIN f : f[i] # <<>> })
    IN  [n \in 1..Len(present) |->
            <<AggTs[present[n]], f[present[n]][1], f[present[n]][2]>>]

\* the Float series and the Dict series aggregated: at each timestamp no
\* point or a point with one of the payloads
FloatSeries ==
    { TimeSeries(K1, "ph", ChosenPoints(f))
      : f \in [1..Len(AggTs) -> AggPayloads \cup {<<>>}] }

DictSeries ==
    { EventList_TimeSeries(K1, "ev", ChosenPoints(f))
      : f \in [1..3 -> DictPayloads \cup {<<>>}] }

\* the groups and functions passed, one unknown each
GroupArgs == Groups \cup { "weekly" }
FunctionArgs == Functions \cup { "median" }

InitAggregation ==
    /\ series \in FloatSeries \cup DictSeries
    /\ pre = NewSeries(K1, "ph")
    /\ call = [op |-> "init"]
    /\ ret = NoRet
    /\ exc = ""
    /\ StoreIdle

\* list(series.aggregation(group, function)): out is what was yielded (the
\* series stays as it is, so one aggregation per behaviour shows them all)
Aggregation ==
    /\ call.op = "init"
    /\ \E group \in GroupArgs, function \in FunctionArgs :
        LET r == aggregation(series, group, function)
        IN  /\ out' = r.out
            /\ exc' = r.exc
            /\ call' = [op |-> "aggregation", group |-> group, function |-> function]
    /\ UNCHANGED <<read_only, series, pre, ret, cells, cellsPre, nIns, stored>>
    /\ UNCHANGED others

NextAggregation == Aggregation

SpecAggregation == InitAggregation /\ [][NextAggregation]_vars

-----------------------------------------------------------------------------
\* Bucket machine: a series built by insert_storage_item, as the store
\* reads build it (its arrays agree in length; under the prepend of
\* insert_storage_item a timestamp may occur twice), then listed by daily_storage_buckets or written by insert_timeseries
\* (nIns = 1 once that is done)

\* list(series.daily_storage_buckets()); _storage_item_at raises IndexError
\* where the offsets array is shorter than the timestamps array
ListBuckets ==
    /\ nIns = 0
    /\ out' = IF EqualLen(series) THEN daily_storage_buckets(series) ELSE <<>>
    /\ exc' = IF EqualLen(series) THEN "" ELSE "IndexError"
    /\ call' = [op |-> "daily_storage_buckets"]
    /\ nIns' = 1
    /\ UNCHANGED <<read_only, series, pre, ret, cells, cellsPre, stored>>
    /\ UNCHANGED others

\* insert_timeseries(series) on the empty table; call.rows lists the row
\* keys of the Batch.put calls it made
BucketInsert ==
    /\ nIns = 0
    /\ LET r == insert_timeseries(cells, read_only, series)
           buckets == daily_storage_buckets(series)
       IN  /\ cells' = r.cells
           /\ ret' = r.ret
           /\ exc' = r.exc
           /\ call' = [op |-> "insert_timeseries",
                       rows |-> IF r.exc = ""
                                THEN [n \in 1..Len(buckets) |->
                                        get_row_key(series.key, buckets[n].day)]
                                ELSE <<>>]
    /\ nIns' = 1
    /\ cellsPre' = cells
    /\ UNCHANGED <<read_only, series, pre, out, stored>>
    /\ UNCHANGED others

NextBuckets ==
    \/ (nIns = 0 /\ InsertStorageItem)
    \/ ListBuckets
    \/ BucketInsert

SpecBuckets == InitSeries /\ [][NextBuckets]_vars

-----------------------------------------------------------------------------
\* Append machine: a Float series of key "k1" and metric "ph" and the
\* series appended to it

\* the series passed as other: every run of timestamps, and the empty
\* series, of either key, either of two metrics and either series type
AppendInputs ==
    { [s |-> RunSeries(k, m, r[1], r[2]), series_type |-> t]
      : k \in { K1, K2 }, m \in { "ph", "act" },
        r \in { q \in (0..MaxSeriesTs) \X (0..MaxSeriesTs) : q[1] <= q[2] + 1 },
        t \in { FLOATSERIES, DICTSERIES } }

AppendTimeseries ==
    \E other \in AppendInputs :
        SeriesStep([op |-> "append_timeseries", other |-> other.s,
                    series_type |-> other.series_type],
                   append_timeseries(series, other.s, other.series_type))

NextAppend == AppendTimeseries

SpecAppend == InitSeries /\ [][NextAppend]_vars

-----------------------------------------------------------------------------
\* Count-trim machine: a series built by insert_storage_item and trimmed by
\* count from either end

\* the counts passed to trim_count_newest and trim_count_oldest
TrimCounts == 0..MaxLen

TrimCountNewest ==
    \E count \in TrimCounts :
        SeriesStep([op |-> "trim_count_newest", count |-> count],
                   Returned(trim_count_newest(series, count), NoRet))

TrimCountOldest ==
    \E count \in TrimCounts :
        SeriesStep([op |-> "trim_count_oldest", count |-> count],
                   Returned(trim_count_oldest(series, count), NoRet))

NextTrimCount == InsertStorageItem \/ TrimCountNewest \/ TrimCountOldest

SpecTrimCount == InitSeries /\ [][NextTrimCount]_vars

-----------------------------------------------------------------------------
\* Batch machine: up to MaxInserts upsert_rows calls on the table "events"
\* while the backend answers every row of a batch with a status of its own

K3 == <<107, 51>>

\* the statuses a row is answered with: code 0, or one of two error codes
\* with a message
Statuses ==
    { [code |-> 0, message |-> ""], [code |-> 4, message |-> "deadline"],
      [code |-> 10, message |-> "aborted"], [code |-> 10, message |-> "deadline"] }

\* batches of one to three rows on distinct row keys, and one batch whose
\* second row has a column without a colon
BatchInputs ==
    { << [row_key |-> K1, cells |-> { [column |-> ColE1, value |-> <<55>>] }] >>,
      << [row_key |-> K1, cells |-> { [column |-> ColE1, value |-> <<56>>] }],
         [row_key |-> K2, cells |-> { [column |-> ColE1, value |-> <<55>>],
                                      [column |-> ColE12, value |-> <<56>>] }] >>,
      << [row_key |-> K3, cells |-> { [column |-> ColE12, value |-> <<55>>] }],
         [row_key |-> K1, cells |-> { [column |-> ColE1, value |-> <<57>>] }],
         [row_key |-> K2, cells |-> { [column |-> ColE1, value |-> <<57>>] }] >>,
      << [row_key |-> K1, cells |-> { [column |-> ColE12, value |-> <<56>>] }],
         [row_key |-> K2, cells |-> { [column |-> ColNoColon, value |-> <<55>>] }] >> }

\* the status lists mutate_rows can answer a batch of n rows with
ResponsesFor(n) == [1..n -> Statuses]

TableUpsertRowsAnswered ==
    \E u \in BatchInputs : \E responses \in ResponsesFor(Len(u)) :
        LET r == upsert_rows(events, u, responses)
        IN  /\ nIns < MaxInserts
            /\ nIns' = nIns + 1
            /\ \E g \in get_instance(instances) : instances' = g.instances
            /\ call' = [op |-> "Table.upsert_rows", table |-> "events",
                        row_upserts |-> u,
                        responses |-> IF r.sent THEN responses ELSE <<>>,
                        sent |-> r.sent, args |-> r.args]
            /\ cellsPre' = events
            /\ events' = r.cells
            /\ ret' = r.ret
            /\ out' = r.out
            /\ exc' = r.exc
            /\ UNCHANGED <<read_only, series, pre, cells, stored, threads,
                           client, activity>>

NextBatch == TableUpsertRowsAnswered

SpecBatch == InitTable /\ [][NextBatch]_vars

-----------------------------------------------------------------------------
\* Entity machine: series of three entity keys, one of them the key "k1"
\* followed by the separator and more text, and a last-N scan of one key

\* the entity key "k1#x"
K1X == K1 \o <<Hash, 120>>

EntityKeys == { K1, K2, K1X }

\* the (offset, value) of the points inserted under an entity key, a pair
\* of its own for every key
EntityPayload(key) ==
    IF key = K1X THEN <<900, 7>> ELSE PayloadOf(key, "ph")

\* the "ph" series of key with the points TsOf(a) .. TsOf(b)
EntitySeries(key, a, b) ==
    LET p == EntityPayload(key)
    IN  InsertAll(NewSeries(key, "ph"),
                  [i \in 1..(b - a + 1) |-> <<TsOf(a + i - 1), p[1], p[2]>>], 1)

\* the series offered: the runs that start on the first day for "k1" and
\* "k1#x", and one series for "k2"
EntityInputs ==
    { EntitySeries(k, r[1], r[2]) : k \in { K1, K1X }, r \in { q \in Runs : q[1] <= 1 } }
    \cup { EntitySeries(K2, 0, MaxPoints - 1) }

InsertEntitySeries ==
    /\ call.op \notin ObservedOps
    /\ nIns < MaxInserts
    /\ \E ts \in EntityInputs :
        LET r == insert_timeseries(cells, read_only, ts)
        IN  /\ cells' = r.cells
            /\ ret' = r.ret
            /\ exc' = r.exc
            /\ stored' = IF r.exc = "" THEN Accept(stored, ts) ELSE stored
    /\ call' = [op |-> "insert_timeseries"]
    /\ nIns' = nIns + 1
    /\ UNCHANGED <<read_only, series, pre, cellsPre, out>>
    /\ UNCHANGED others

GetLastValuesOfEntity ==
    /\ call.op \notin ObservedOps
    /\ \E key \in EntityKeys, count \in 1..MaxCount, max_days \in 1..MaxDaysArg,
          max_ts \in LastTs :
        Observe([op |-> "get_last_values", key |-> key, metrics |-> <<"ph">>,
                 count |-> count, max_days |-> max_days, max_ts |-> max_ts],
                get_last_values(cells, key, <<"ph">>, count, max_days, max_ts))

NextEntities == InsertEntitySeries \/ GetLastValuesOfEntity

SpecEntities == InitStore /\ [][NextEntities]_vars

-----------------------------------------------------------------------------
\* Read-only gate of the stores

\* the argument of the last call breaks a precondition of its mutator
InvalidArgument ==
    \/ call.op = "insert_timeseries" /\ call.n = 0
    \/ call.op = "delete_timeseries" /\ call.from_ts > call.to_ts
    \/ call.op = "insert_events" /\ ~(1 <= call.n /\ call.n < MAX_BATCH)
    \/ call.op = "incr_activity" /\ ~get_insert_keys(call.reader_id, call.timestamp,
                                                     call.parent_ids).ok

\* C11: on a read-only Connection each of insert_timeseries,
\* delete_timeseries, insert_events and incr_activity raises the read-only
\* error whatever its arguments are, and leaves the cells of the three
\* tables and the counters as they were
C11_ReadOnlyMutators ==
    [][(read_only /\ call'.op \in MutatorOps)
        => /\ exc' = "RuntimeError: readonly"
           /\ ret' = NoRet
           /\ cells' = cells
           /\ events' = events
           /\ activity' = activity]_vars

\* a read-only Connection over filled tables has refused a mutator call
\* whose argument is invalid as well
C11_Witness ==
    /\ read_only
    /\ call.op \in MutatorOps
    /\ InvalidArgument
    /\ exc = "RuntimeError: readonly"
    /\ cells # {}
    /\ events # {}
    /\ activity # {}

\* C12: on a read-only Connection, Connection.write_cell and the mutators
\* of a table handle from get_table (write_cell, delete_row, upsert_rows,
\* increment_counter) raise the read-only error and leave every backend
\* cell as it was
C12_ReadOnlyConnection ==
    [][(read_only /\ call'.op \in TableOps)
        => /\ exc' = "RuntimeError: readonly"
           /\ cells' = cells
           /\ events' = events
           /\ activity' = activity]_vars

\* what the code does instead: a mutator of the table machine that is
\* given well-formed columns succeeds on a read-only Connection too
C12_MutatorsIgnoreReadOnly ==
    (call.op \in TableOps /\ exc # "ValueError") => exc = ""

\* C13: a client built by create_client from a configuration with STAGING
\* set is read-only, and so is its Connection, whatever READ_ONLY is; each
\* of its mutating calls raises before a store method is called and leaves
\* the tables as they were
C13_StagingIsReadOnly ==
    [][/\ client'.config.STAGING => (client'.read_only /\ read_only')
       /\ (client.config.STAGING /\ call'.op \in ClientMutators)
            => /\ exc' = "RuntimeError: not possible in read only mode"
               /\ ~call'.reached
               /\ cells' = cells
               /\ events' = events
               /\ activity' = activity]_vars

\* a client of a configuration with STAGING set and READ_ONLY unset has
\* refused a mutating call over tables an earlier client has filled
C13_Witness ==
    /\ client.config.STAGING
    /\ ~client.config.READ_ONLY
    /\ call.op \in ClientMutators
    /\ exc = "RuntimeError: not possible in read only mode"
    /\ cells # {}
    /\ events # {}
    /\ activity # {}

-----------------------------------------------------------------------------
\* Activity counters

\* the counter c:{HH}.{device} of the last call in the row of a base key
\* ("t" or a parent id): {base}#{reverseDate}#{reader}
ActivityCounter(base) ==
    CounterValue(activity,
                 base \o <<Hash>> \o reverse_day_key(call.timestamp) \o <<Hash>>
                      \o call.reader_id,
                 <<99>>,
                 FormatD((call.timestamp % DaySecs) \div 3600, 2) \o <<Dot>>
                      \o call.device_id)

\* the parent list of the behaviour, and whether the precondition accepts
\* it along with the reader id
CallParents == call.parent_ids[1]

PreconditionHolds ==
    /\ 3 <= Len(call.reader_id) /\ Len(call.reader_id) <= 32
    /\ 1 <= Len(CallParents) /\ Len(CallParents) <= 3
    /\ \A i \in 1..Len(CallParents) :
        3 <= Len(CallParents[i]) /\ Len(CallParents[i]) <= 32

\* C14: after K calls of incr_activity with value 1 and the same arguments
\* accepted by the precondition, from absent counters, the counter
\* c:{HH}.{device} of the total row equals K and so does the counter of
\* each parent row; each call returns one new value per row, the total row
\* first
C14_CountersEqualCalls ==
    (call.op = "incr_activity" /\ PreconditionHolds) =>
        /\ exc = ""
        /\ ActivityCounter(<<116>>) = call.k
        /\ \A i \in 1..Len(CallParents) : ActivityCounter(CallParents[i]) = call.k
        /\ out = [i \in 1..(1 + Len(CallParents)) |-> call.k]

\* what the code does: with a device id free of colons the total counter
\* equals K and the counter of a parent listed m times equals m * K, the
\* call fails and counts nothing when the device id holds a colon
C14_CountersPerListedParent ==
    (call.op = "incr_activity" /\ PreconditionHolds) =>
        IF \E i \in 1..Len(call.device_id) : call.device_id[i] = Colon
        THEN exc = "ValueError" /\ activity = {}
        ELSE /\ exc = ""
             /\ ActivityCounter(<<116>>) = call.k
             /\ \A i \in 1..Len(CallParents) :
                 ActivityCounter(CallParents[i])
                    = call.k * Cardinality({ j \in 1..Len(CallParents) :
                                               CallParents[j] = CallParents[i] })

\* the increments done so far: (thread, position in its row list)
Increments ==
    { p \in Threads \X (1..(1 + MaxParents)) : p[2] <= Len(threads[p[1]].res) }

\* the sum of the values the done increments added to the counter of a row
RECURSIVE SumAdded(_, _)
SumAdded(row, S) ==
    IF S = {} THEN 0
    ELSE LET p == CHOOSE x \in S : TRUE
         IN  (IF threads[p[1]].row_keys[p[2]] = row THEN threads[p[1]].value ELSE 0)
             + SumAdded(row, S \ {p})

\* C15: however the counter increments of concurrent incr_activity calls
\* interleave, every counter equals the sum of the values added to it so
\* far (so none is lost when all calls have finished), and two increments
\* by 1 of one counter return different values
C15_NoLostIncrement ==
    /\ \A c \in activity : c.val = SumAdded(c.row, Increments)
    /\ \A p \in Increments : \E c \in activity : c.row = threads[p[1]].row_keys[p[2]]
    /\ \A p \in Increments, q \in Increments :
        (/\ p # q
         /\ threads[p[1]].row_keys[p[2]] = threads[q[1]].row_keys[q[2]]
         /\ threads[p[1]].value = 1
         /\ threads[q[1]].value = 1)
            => threads[p[1]].res[p[2]] # threads[q[1]].res[q[2]]

\* all calls have finished, two of them with value 1 met on a parent row,
\* and the later one started before the earlier one had finished
C15_Witness ==
    /\ \A t \in Threads : threads[t].pc = "done"
    /\ \E t \in Threads, u \in Threads :
        /\ t # u
        /\ threads[t].value = 1 /\ threads[u].value = 1
        /\ Len(threads[t].res) >= 2 /\ Len(threads[u].res) >= 2
        /\ threads[t].row_keys[2] = threads[u].row_keys[2]
        /\ threads[t].res[1] < threads[u].res[1]
        /\ threads[t].res[2] > threads[u].res[2]

-----------------------------------------------------------------------------
\* Instance pool

\* C16: with get_instance called concurrently from several threads, the
\* pool never holds more than pool_size instances, and no instance is
\* created once the pool holds pool_size instances
C16_PoolBounded ==
    /\ [](Len(instances) <= PoolSize)
    /\ [][Len(instances) >= PoolSize => Created' \subseteq Created]_vars

\* what the code guarantees: a thread that finds the pool full creates
\* nothing, and the pool exceeds pool_size by less than the number of threads
C16_PoolOvershootBounded ==
    /\ Len(instances) <= PoolSize + MaxCallers - 1
    /\ Cardinality(Created) <= PoolSize + MaxCallers - 1

-----------------------------------------------------------------------------
\* Range preconditions

\* C17: get_timeseries, get_events and get_activity_for_reader accept a
\* request exactly when from_ts <= to_ts and to_ts - from_ts is at most the
\* maximum span of the store (400, 45 and 90 days), a span equal to the
\* maximum included; every other request fails with the argument error
C17_SpanUpToMaximum ==
    call.op \in RangeReads =>
        IF call.from_ts <= call.to_ts /\ call.to_ts - call.from_ts <= MaxSpan(call.op)
        THEN exc = ""
        ELSE exc = "AssertionError"

\* what the code does: a span equal to the maximum is rejected, every
\* shorter one is accepted
C17_SpanBelowMaximum ==
    call.op \in RangeReads =>
        IF call.from_ts <= call.to_ts /\ call.to_ts - call.from_ts < MaxSpan(call.op)
        THEN exc = ""
        ELSE exc = "AssertionError" /\ out = <<>>

-----------------------------------------------------------------------------
\* Batch size of insert_events

\* the events of the batch of n events are stored, each in the column of
\* its timestamp in the row of its day
BatchStored(tbl, n) ==
    LET parsed == { <<c.row, c.fam, ParseInt(c.q), ParseInt(c.val)>> : c \in tbl }
    IN  \A i \in 1..n :
            <<K1 \o <<Hash>> \o EvName \o <<Hash>> \o reverse_day_key(TsBase + i),
              <<101>>, TsBase + i, i>> \in parsed

-----------------------------------------------------------------------------
\* Reverse-date keys

\* calendar order: day a is before day b
DayBefore(a, b) ==
    \/ a.tm_year < b.tm_year
    \/ a.tm_year = b.tm_year /\ a.tm_mon < b.tm_mon
    \/ a.tm_year = b.tm_year /\ a.tm_mon = b.tm_mon /\ a.tm_mday < b.tm_mday

EightDigits(k) == Len(k) = 8 /\ \A i \in 1..Len(k) : k[i] \in Digit0..(Digit0 + 9)

\* C19: for two UTC days d1 < d2 of years up to 4999 the key of d1 is
\* lexicographically greater than the key of d2, every key is 8 digits
\* long, the row key {key}#{reverseDate} of the later day sorts first, and
\* 2023-06-15 gives "29774435", 2024-01-02 gives "29764948"
C19_ReverseDayKeyOrder ==
    call.op = "reverse_day_key" =>
        /\ EightDigits(out[1]) /\ EightDigits(out[2])
        /\ DayBefore(call.d1, call.d2) => (LexLess(out[2], out[1]) /\ LexLess(out[4], out[3]))
        /\ call.d1 = call.d2 => out[1] = out[2]
        /\ call.d1 = [tm_year |-> 2023, tm_mon |-> 6, tm_mday |-> 15]
            => out[1] = <<50, 57, 55, 55, 52, 52, 51, 53>>
        /\ call.d1 = [tm_year |-> 2024, tm_mon |-> 1, tm_mday |-> 2]
            => out[1] = <<50, 57, 55, 54, 52, 57, 52, 56>>

\* the keys of 2023-06-15 and 2024-01-02: the earlier day has the later
\* month and day of the month, and the greater key
C19_Witness ==
    /\ call.op = "reverse_day_key"
    /\ call.d1 = [tm_year |-> 2023, tm_mon |-> 6, tm_mday |-> 15]
    /\ call.d2 = [tm_year |-> 2024, tm_mon |-> 1, tm_mday |-> 2]
    /\ out[1] = <<50, 57, 55, 55, 52, 52, 51, 53>>
    /\ out[2] = <<50, 57, 55, 54, 52, 57, 52, 56>>
    /\ LexLess(out[4], out[3])

-----------------------------------------------------------------------------
\* Storage round trip

\* C20: when every point of a series S built by TimeSeries(key, metric,
\* values) has been encoded by the cell codec and inserted with
\* insert_storage_item into a fresh series of the same key and metric, in
\* any order, that series has the timestamps and the offsets of S and the
\* same to_hash; every insert returns 1
C20_StorageRoundTrip ==
    /\ call.op = "insert_storage_item" => (exc = "" /\ ret = 1)
    /\ Len(call.order) = SLen(call.S) =>
        /\ series.timestamps = call.S.timestamps
        /\ series.offsets = call.S.offsets
        /\ to_hash(series) = to_hash(call.S)

\* a series of three points with a negative offset among them has been
\* rebuilt from its encoded items, the last point first and the middle one
\* last
C20_Witness ==
    /\ SLen(call.S) = 3
    /\ call.order = <<2, 0, 1>>
    /\ \E i \in 1..3 : call.S.offsets[i] < 0
    /\ \E i \in 1..3 : call.S.offsets[i] = 0
    /\ series.timestamps = call.S.timestamps
    /\ series.offsets = call.S.offsets
    /\ to_hash(series) = to_hash(call.S)

-----------------------------------------------------------------------------
\* Concurrent inserts

\* the cell insert_timeseries stores for a point of a "ph" series of key k1
PointCell(ts, offset, value) ==
    [row |-> get_row_key(K1, ts_daily_left(ts)), fam |-> get_metric_object("ph").id,
     q |-> FormatInt(ts), val |-> EncodeCell(offset, value)]

\* the cells of all points of the series of thread t
ThreadCells(t) ==
    { PointCell(threads[t].ts.timestamps[i], threads[t].ts.offsets[i],
                threads[t].ts.values[i]) : i \in 1..SLen(threads[t].ts) }

\* the timestamps of the series of thread t
ThreadTs(t) == { threads[t].ts.timestamps[i] : i \in 1..SLen(threads[t].ts) }

AllDone == \A t \in Threads : threads[t].pc = "done"

PairwiseDisjoint == \A t, u \in Threads : t # u => ThreadTs(t) \cap ThreadTs(u) = {}

\* C21: when concurrent insert_timeseries calls for the same key and metric
\* with pairwise disjoint timestamp sets have all returned, whatever the
\* interleaving of their row mutations, the table holds exactly the cells of
\* the union of the series, each call having returned its length; and right
\* after a row mutation, every column it wrote holds exactly one cell, with
\* the value of that write, also where an earlier insert had written the
\* same timestamp
C21_ConcurrentInserts ==
    /\ (AllDone /\ PairwiseDisjoint) =>
        /\ cells = UNION { ThreadCells(t) : t \in Threads }
        /\ \A t \in Threads : threads[t].ret = SLen(threads[t].ts)
    /\ call.op = "put" =>
        \A x \in 1..Len(threads[call.thread].buckets[call.n].bucket) :
            LET item == threads[call.thread].buckets[call.n].bucket[x]
                col == { c \in cells :
                           /\ c.row = get_row_key(K1, threads[call.thread].buckets[call.n].day)
                           /\ c.fam = get_metric_object("ph").id
                           /\ c.q = FormatInt(item.ts) }
            IN  col = { PointCell(item.ts, 0, call.thread) }

\* two inserts with disjoint timestamps have both written into the same
\* day-row, their row mutations interleaved (thread 1 wrote a row, then
\* thread 2 its row, then thread 1 its last), and all calls have returned
C21_Witness ==
    /\ AllDone
    /\ PairwiseDisjoint
    /\ ThreadTs(1) = { TsOf(0), TsOf(2) }
    /\ ThreadTs(2) = { TsOf(1) }
    /\ call = [op |-> "put", thread |-> 1, n |-> 2]
    /\ cellsPre = { PointCell(TsOf(0), 0, 1), PointCell(TsOf(1), 0, 2) }
    /\ Cardinality(cells) = 3

\* an insert has just rewritten a timestamp an earlier insert had written
\* with another value
RewriteReached ==
    /\ call.op = "put"
    /\ \E c \in cellsPre, d \in cells :
        /\ c.row = d.row /\ SameColumn(c, d) /\ c.val # d.val
        /\ d = PointCell(TsOf(1), 0, call.thread)

-----------------------------------------------------------------------------
\* Aggregation

\* a known group and a known function have been applied to a Float series
FloatAggregated ==
    /\ call.op = "aggregation"
    /\ call.group \in Groups
    /\ call.function \in Functions
    /\ \A i \in 1..SLen(series) : ~IsDict(series.values[i])

\* the left boundary of the bucket of a timestamp under the group applied
BucketLeft(ts) ==
    IF call.group = "hourly" THEN ts - (ts % 3600) ELSE ts - (ts % DaySecs)

\* the indices of the points of the bucket that starts at b
BucketOf(b) == { i \in 1..SLen(series) : BucketLeft(series.timestamps[i]) = b }

RECURSIVE SumValues(_, _)
SumValues(points, n) ==
    IF n > Len(points) THEN 0 ELSE points[n].value + SumValues(points, n + 1)

\* one point per bucket that holds a point, in ascending order, at the left
\* boundary of the bucket, with the offset of the bucket's first point
BucketPoints ==
    /\ exc = ""
    /\ { out[i].ts : i \in 1..Len(out) }
         = { BucketLeft(series.timestamps[i]) : i \in 1..SLen(series) }
    /\ \A i \in 2..Len(out) : out[i - 1].ts < out[i].ts
    /\ \A i \in 1..Len(out) :
        LET first == CHOOSE k \in BucketOf(out[i].ts) : \A j \in BucketOf(out[i].ts) : k <= j
        IN  out[i].dt = [ts |-> out[i].ts, offset |-> series.offsets[first]]

\* the counts of the buckets sum to the length of the series
CountsSum == call.function = "count" => SumValues(out, 1) = SLen(series)

\* |v - c| <= c * 2^-52 for floats v and c
Close(v, c) ==
    LET d == IF FLess(v, c) THEN FSub(c, v) ELSE FSub(v, c)
    IN  ~FLess([m |-> c.m, e |-> c.e - 52], d)

\* the buckets of out whose points all have the same value
Constant(i) ==
    \A j, k \in BucketOf(out[i].ts) : series.values[j] = series.values[k]
ValueOf(i) == series.values[CHOOSE j \in BucketOf(out[i].ts) : TRUE]

-----------------------------------------------------------------------------
\* Aggregation of Dict series and of unknown groups and functions

\* an aggregation has been iterated over a non-empty Dict series
DictAggregated ==
    /\ call.op = "aggregation"
    /\ SLen(series) > 0
    /\ \A i \in 1..SLen(series) : IsDict(series.values[i])

\* C23: aggregation on a Dict series raises an argument error for every
\* group and function, count included, and yields no point; an unknown
\* group or function raises an argument error as well
C23_DictAggregationRaises ==
    /\ DictAggregated => (exc = "ValueError" /\ out = <<>>)
    /\ (call.op = "aggregation"
        /\ (call.group \notin Groups \/ call.function \notin Functions)) =>
            (exc = "ValueError" /\ out = <<>>)

\* what the code does: an unknown group or function raises ValueError before
\* any point is yielded; on a Dict series count yields the bucket sizes,
\* min and max yield the dict of a bucket of one point, and every other
\* case ends in a TypeError
C23_DictAggregationYields ==
    /\ (call.op = "aggregation"
        /\ (call.group \notin Groups \/ call.function \notin Functions)) =>
            (exc = "ValueError" /\ out = <<>>)
    /\ (DictAggregated /\ call.group \in Groups /\ call.function = "count") =>
            (exc = "" /\ Len(out) > 0 /\ SumValues(out, 1) = SLen(series))
    /\ (DictAggregated /\ call.group \in Groups
        /\ call.function \in { "sum", "amp", "mean" }) =>
            (exc = "TypeError" /\ out = <<>>)
    /\ (DictAggregated /\ call.group \in Groups /\ call.function \in { "min", "max" }) =>
            (exc \in { "", "TypeError" } /\ \A i \in 1..Len(out) : IsDict(out[i].value))

-----------------------------------------------------------------------------
\* Daily buckets

\* the storage items of buckets n, n + 1, ... one after the other
RECURSIVE BucketItems(_, _)
BucketItems(buckets, n) ==
    IF n > Len(buckets) THEN <<>>
    ELSE buckets[n].bucket \o BucketItems(buckets, n + 1)

\* the UTC days that hold a point of the series
SeriesDays == { ts_daily_left(series.timestamps[i]) : i \in 1..SLen(series) }

\* C24: for a series whose arrays agree in length, the buckets of
\* daily_storage_buckets, one after the other, are the points of the series,
\* each once; every point of a bucket lies on the bucket's day, no bucket is
\* empty and the days ascend strictly; insert_timeseries makes one row
\* mutation per distinct UTC day of the series, each for another row, and
\* returns the number of points, which is the sum of the bucket sizes
C24_DailyBuckets ==
    /\ (call.op = "daily_storage_buckets" /\ EqualLen(series)) =>
        /\ exc = ""
        /\ BucketItems(out, 1) = [i \in 1..SLen(series) |-> storage_item_at(series, i - 1)]
        /\ \A n \in 1..Len(out) :
            /\ Len(out[n].bucket) > 0
            /\ \A x \in 1..Len(out[n].bucket) :
                ts_daily_left(out[n].bucket[x].ts) = out[n].day
        /\ \A n \in 2..Len(out) : out[n - 1].day < out[n].day
    /\ (call.op = "insert_timeseries" /\ exc = "") =>
        /\ Len(call.rows) = Cardinality(SeriesDays)
        /\ \A m, n \in 1..Len(call.rows) : m # n => call.rows[m] # call.rows[n]
        /\ { call.rows[n] : n \in 1..Len(call.rows) }
             = { get_row_key(series.key, d) : d \in SeriesDays }
        /\ ret = SLen(series)
        /\ ret = Len(BucketItems(daily_storage_buckets(series), 1))

\* a series of three points, two on the first day and one on the next, has
\* been written with two row mutations
C24_Witness ==
    /\ call.op = "insert_timeseries"
    /\ exc = ""
    /\ series.timestamps = <<TsOf(0), TsOf(1), TsOf(2)>>
    /\ Len(call.rows) = 2
    /\ ret = 3
    /\ Cardinality({ c.row : c \in cells }) = 2
    /\ Cardinality(cells) = 3

\* the buckets of that series have been listed: two and one point
BucketsListed ==
    /\ call.op = "daily_storage_buckets"
    /\ series.timestamps = <<TsOf(0), TsOf(1), TsOf(2)>>
    /\ Len(out) = 2
    /\ Len(out[1].bucket) = 2

-----------------------------------------------------------------------------
\* append_timeseries

\* other differs from the receiver in key, metric or series type, or does
\* not start after the receiver ends
AppendRefusable ==
    \/ call.other.key # pre.key
    \/ call.other.metric # pre.metric
    \/ call.series_type # FLOATSERIES
    \/ ts_max(pre) >= ts_min(call.other)

\* the receiver followed by other, strictly ascending, arrays of one length
Appended ==
    /\ exc = ""
    /\ series.timestamps = pre.timestamps \o call.other.timestamps
    /\ series.offsets = pre.offsets \o call.other.offsets
    /\ series.values = pre.values \o call.other.values
    /\ StrictlyAscending(series.timestamps)
    /\ EqualLen(series)

\* C25: append_timeseries(other) fails and leaves the receiver unchanged
\* whenever other differs from it in key, metric or series type or
\* this.ts_max >= other.ts_min, for every other, an empty one included;
\* otherwise the receiver is followed by the points of other, strictly
\* ascending, with arrays of equal length
C25_AppendChecked ==
    call.op = "append_timeseries" =>
        IF AppendRefusable THEN exc # "" /\ series = pre ELSE Appended

\* what the code does: a non-empty other is checked as the claim says; an
\* empty other is never checked and the call returns with the receiver
\* unchanged
C25_AppendNonEmptyChecked ==
    call.op = "append_timeseries" =>
        IF SLen(call.other) = 0 THEN exc = "" /\ series = pre
        ELSE IF AppendRefusable THEN exc = "AssertionError" /\ series = pre
        ELSE Appended

\* an empty series of another key has been appended without an error
EmptyOtherAccepted ==
    /\ call.op = "append_timeseries"
    /\ SLen(call.other) = 0
    /\ call.other.key = K2
    /\ SLen(pre) > 0
    /\ exc = ""

-----------------------------------------------------------------------------
\* Trimming by count

\* the points of pre from 0-based position lo up to hi, in all three arrays
KeepsPoints(lo, hi) ==
    /\ series.timestamps = Slice(pre.timestamps, lo, hi)
    /\ series.offsets = Slice(pre.offsets, lo, hi)
    /\ series.values = Slice(pre.values, lo, hi)
    /\ EqualLen(series)

\* C26: for every count n >= 0, n = 0 included, trim_count_newest(n) leaves
\* exactly the min(n, length) points with the largest timestamps and
\* trim_count_oldest(n) the min(n, length) points with the smallest ones,
\* the three arrays keeping one length
C26_TrimCount ==
    LET kept == Min(call.count, SLen(pre))
    IN  /\ call.op = "trim_count_newest" =>
               KeepsPoints(SLen(pre) - kept, SLen(pre))
        /\ call.op = "trim_count_oldest" => KeepsPoints(0, kept)

\* what the code does: trim_count_newest(0) keeps every point; every other
\* count, and trim_count_oldest for every count, trims as the claim says
C26_TrimCountExceptNewestZero ==
    LET kept == Min(call.count, SLen(pre))
    IN  /\ call.op = "trim_count_newest" =>
               IF call.count = 0 THEN series = pre
               ELSE KeepsPoints(SLen(pre) - kept, SLen(pre))
        /\ call.op = "trim_count_oldest" => KeepsPoints(0, kept)

\* trim_count_newest(0) has returned on a series of several points
NewestZeroKeepsAll ==
    /\ call.op = "trim_count_newest"
    /\ call.count = 0
    /\ SLen(pre) > 1
    /\ series = pre

\* trim_count_oldest(0) has emptied a series of several points
OldestZeroEmpties ==
    /\ call.op = "trim_count_oldest"
    /\ call.count = 0
    /\ SLen(pre) > 1
    /\ SLen(series) = 0

-----------------------------------------------------------------------------
\* Table.upsert_rows and the statuses of its batch

\* positions of the batch answered with a non-zero code
Failing == { i \in 1..Len(call.responses) : call.responses[i].code # 0 }

\* the table after the rows answered with code 0, and no other row of the
\* batch, were written over cellsPre in batch order
RECURSIVE SucceededWritten(_, _)
SucceededWritten(tbl, n) ==
    IF n > Len(call.row_upserts) THEN tbl
    ELSE LET u == call.row_upserts[n]
         IN  SucceededWritten(
                 IF call.responses[n].code = 0
                 THEN { c \in tbl : ~(c.row = u.row_key /\
                                      \E d \in UpsertCells(u) : SameColumn(c, d)) }
                      \cup { [row |-> u.row_key, fam |-> d.fam, q |-> d.q, val |-> d.val]
                             : d \in UpsertCells(u) }
                 ELSE tbl, n + 1)

-----------------------------------------------------------------------------
\* Failed insert_point calls

\* the timestamps a sequence holds
HeldTs(a) == { a[i] : i \in 1..Len(a) }

\* C28: an insert_point call that raises, for a timestamp that does not fit
\* an unsigned 32-bit integer or an offset that does not fit a signed one,
\* leaves timestamps, offsets and values exactly as they were before the
\* call, so the three arrays still have one length
C28_InsertPointAllOrNothing ==
    (call.op = "insert_point" /\ exc # "") => series = pre /\ EqualLen(series)

\* what the code does: a call that fails on its timestamp, or on the offset
\* of an overwrite, leaves the series as it was; a call that fails on the
\* offset of a new timestamp has already stored the timestamp and the value
C28_FailedInsertKeeps ==
    (call.op = "insert_point" /\ exc = "OverflowError") =>
        IF ~FitsU32(call.timestamp) \/ call.timestamp \in HeldTs(pre.timestamps)
        THEN series = pre
        ELSE /\ Len(series.timestamps) = Len(pre.timestamps) + 1
             /\ Len(series.values) = Len(pre.values) + 1
             /\ series.offsets = pre.offsets
             /\ call.timestamp \in HeldTs(series.timestamps)

\* a failed insert_point on a well-formed series left one more timestamp
\* and value than offsets
HalfInsertedPoint ==
    /\ call.op = "insert_point"
    /\ exc = "OverflowError"
    /\ EqualLen(pre)
    /\ Len(series.timestamps) = Len(series.offsets) + 1
    /\ Len(series.values) = Len(series.offsets) + 1

\* an insert_point with a timestamp out of range failed and changed nothing
TimestampRefused ==
    /\ call.op = "insert_point"
    /\ exc = "OverflowError"
    /\ ~FitsU32(call.timestamp)
    /\ SLen(pre) > 0
    /\ series = pre

-----------------------------------------------------------------------------
\* Total and per-parent activity counters

\* the total row "t#{reverseDate}#{reader}" of the reader and day of a
\* per-parent row "{parent}#{reverseDate}#{reader}"
TotalRowOf(row) == <<116, Hash>> \o split_once(row, Hash)[2]

IsTotalRow(row) == split_once(row, Hash)[1] = <<116>>

\* C29: in every reachable state, between the counter_inc steps of a call
\* and under every interleaving of concurrent incr_activity calls with
\* value >= 1 and distinct parent ids, each counter of a per-parent row is at
\* most the counter of the same column in the total row of its reader and day
C29_TotalDominatesParents ==
    \A c \in activity :
        ~IsTotalRow(c.row) =>
            CounterValue(activity, TotalRowOf(c.row), c.fam, c.q) >= c.val

\* a call is between its increments: the total row is ahead of a parent row
\* that another call has already incremented
C29_Witness ==
    /\ \E t \in Threads :
           /\ threads[t].pc = "incr"
           /\ Len(threads[t].res) = 1
           /\ Len(threads[t].row_keys) > 1
    /\ \E u \in Threads : threads[u].pc = "done" /\ Len(threads[u].res) > 1
    /\ \E c \in activity :
           /\ ~IsTotalRow(c.row)
           /\ c.val >= 1
           /\ CounterValue(activity, TotalRowOf(c.row), c.fam, c.q) > c.val

-----------------------------------------------------------------------------
\* Entity isolation of get_last_values

\* the points get_last_values returned, over all its series
ReturnedPoints ==
    UNION { { Points(out[i])[j] : j \in 1..SLen(out[i]) } : i \in 1..Len(out) }

\* the accepted points of the keys in K, of any metric
PointsUnder(K) ==
    { <<p.ts, p.offset, RoundF32(p.value)>> : p \in { q \in stored : q.key \in K } }

\* C30: for entity keys a # b of at least 2 characters, keys containing the
\* separator '#' included, get_last_values(a, ...) returns only points that
\* were inserted under a, never one inserted under b
C30_EntityIsolation ==
    (call.op = "get_last_values" /\ exc = "") =>
        ReturnedPoints \subseteq PointsUnder({ call.key })

\* what the code does: the returned points were inserted under the key
\* asked for or under a key that starts with that key and the separator
C30_IsolationUpToPrefix ==
    (call.op = "get_last_values" /\ exc = "") =>
        ReturnedPoints \subseteq
            PointsUnder({ k \in EntityKeys :
                            k = call.key \/ StartsWith(k, call.key \o <<Hash>>) })

\* get_last_values of "k1" has returned a point inserted under "k1#x"
ForeignPointReturned ==
    /\ call.op = "get_last_values"
    /\ call.key = K1
    /\ exc = ""
    /\ \E p \in ReturnedPoints : p \in PointsUnder({ K1X }) /\ p \notin PointsUnder({ K1 })

\* get_last_values of "k2" has returned points while "k1" held points too
OtherKeySkipped ==
    /\ call.op = "get_last_values"
    /\ call.key = K2
    /\ exc = ""
    /\ ReturnedPoints # {}
    /\ PointsUnder({ K1 }) # {}

====
